---- MODULE Spec2Model ----
(***************************************************************************)
(* A model of the AVL tree of src/tree/avl (AvlTree, AVLTreeNode and the   *)
(* borrowed iterators).  The heap is explicit: every Box<AVLTreeNode> is a *)
(* cell of `nodes`, addressed by the address the allocator gave it; the    *)
(* owning links left/right and the raw parent pointer are addresses, with  *)
(* Null standing for None and for the null pointer.                        *)
(***************************************************************************)
EXTENDS Integers, Sequences, FiniteSets, TLC

VARIABLES nodes, root, size, panicked, ref, last, drain, owned, probe, bloom

vars == <<nodes, root, size, panicked, ref, last, drain, owned, probe, bloom>>

\* ------------------------------------------------------------------ bounds
\* Spec stores keys 1..MaxKey with values 1..MaxVal and calls every operation;
\* SpecShape stores keys 1..MaxShapeKey, all with the same value, and calls
\* insert and remove only, which lets it reach deeper trees.
MaxKey == 4
MaxVal == 2
MaxShapeKey == 8

Keys == 1..MaxKey
Vals == 1..MaxVal
ShapeKeys == 1..MaxShapeKey

\* The null pointer / Option::None of a child slot.
Null == 0
\* Option::None of a returned value.
None == 0

\* Heap addresses.  One more than there are keys, so that a second node for a
\* key already stored could still be allocated.
Addr == 1..((IF MaxKey >= MaxShapeKey THEN MaxKey ELSE MaxShapeKey) + 1)

\* ------------------------------------------------------------ AVLTreeNode
\* AVLTreeNode::new(key, value): no children, null parent, height 1.
NewNode(k, v) ==
    [key |-> k, value |-> v, left |-> Null, right |-> Null,
     parent |-> Null, height |-> 1]

\* Box::new: the allocator returns an address that is not in use.  The program
\* only ever compares addresses for equality, so one allocator is as good as
\* another; this one hands out the address numbered like the key when it is
\* free and the lowest free address otherwise.
BoxNew(h, k) ==
    IF k \in Addr /\ k \notin DOMAIN h THEN k
    ELSE CHOOSE a \in Addr \ DOMAIN h : \A b \in Addr \ DOMAIN h : a <= b

\* `x as i8` on an i64.
AsI8(x) == ((x + 128) % 256) - 128

Max(a, b) == IF a >= b THEN a ELSE b

Abs(x) == IF x < 0 THEN -x ELSE x

left_height(h, a) == IF h[a].left = Null THEN 0 ELSE h[h[a].left].height

right_height(h, a) == IF h[a].right = Null THEN 0 ELSE h[h[a].right].height

update_height(h, a) ==
    [h EXCEPT ![a].height = 1 + Max(left_height(h, a), right_height(h, a))]

balance_factor(h, a) == AsI8(left_height(h, a) - right_height(h, a))

RECURSIVE find_leftmost_node(_, _)
find_leftmost_node(h, a) ==
    IF h[a].left = Null THEN a ELSE find_leftmost_node(h, h[a].left)

RECURSIVE find_rightmost_node(_, _)
find_rightmost_node(h, a) ==
    IF h[a].right = Null THEN a ELSE find_rightmost_node(h, h[a].right)

is_left_child(h, p, a) == h[p].left # Null /\ h[p].left = a

is_right_child(h, p, a) == h[p].right # Null /\ h[p].right = a

\* ------------------------------------------------------------------ slots
\* A `&mut Option<Box<AVLTreeNode>>`: the root field of the tree or the left
\* or right field of the node `owner`.  A tree in the middle of an operation
\* is a record t with fields nodes, root and panicked.
RootSlot == [owner |-> Null, side |-> "root"]
LeftSlot(p) == [owner |-> p, side |-> "left"]
RightSlot(p) == [owner |-> p, side |-> "right"]
\* What get_mutable_node_reference "returns" when it panics.
NoSlot == [owner |-> Null, side |-> "panic"]

SlotGet(t, s) ==
    IF s.side = "root" THEN t.root
    ELSE IF s.side = "left" THEN t.nodes[s.owner].left
    ELSE t.nodes[s.owner].right

SlotSet(t, s, a) ==
    IF s.side = "root" THEN [t EXCEPT !.root = a]
    ELSE IF s.side = "left" THEN [t EXCEPT !.nodes[s.owner].left = a]
    ELSE [t EXCEPT !.nodes[s.owner].right = a]

\* -------------------------------------------------------------- rotations
\* rotate_left that leaves the right child's left subtree behind.
rotate_left_DropsInner(t, s) ==
    LET r == SlotGet(t, s) IN
    IF r = Null THEN t
    ELSE LET rc == t.nodes[r].right IN
    IF rc = Null THEN t
    ELSE LET h2 == [t.nodes EXCEPT ![r].right = Null, ![rc].left = Null]
             h3 == [h2 EXCEPT ![rc].parent = h2[r].parent, ![r].parent = rc]
             h4 == update_height(h3, r)
             h5 == [h4 EXCEPT ![rc].left = r]
             h6 == update_height(h5, rc)
         IN SlotSet([t EXCEPT !.nodes = h6], s, rc)

\* rotate_left that recomputes the height of the right child before that of
\* the root it takes as left child.
rotate_left_HeightsSwapped(t, s) ==
    LET r == SlotGet(t, s) IN
    IF r = Null THEN t
    ELSE LET rc == t.nodes[r].right IN
    IF rc = Null THEN t
    ELSE LET rl == t.nodes[rc].left
             h1 == IF rl # Null THEN [t.nodes EXCEPT ![rl].parent = r]
                   ELSE t.nodes
             h2 == [h1 EXCEPT ![r].right = rl, ![rc].left = Null]
             h3 == [h2 EXCEPT ![rc].parent = h2[r].parent, ![r].parent = rc]
             h5 == [h3 EXCEPT ![rc].left = r]
             h6 == update_height(update_height(h5, rc), r)
         IN SlotSet([t EXCEPT !.nodes = h6], s, rc)

\* rotate_right that does not put the root back when it has no left child.
rotate_right_LosesRoot(t, s) ==
    LET r == SlotGet(t, s) IN
    IF r = Null THEN t
    ELSE LET lc == t.nodes[r].left IN
    IF lc = Null THEN SlotSet(t, s, Null)
    ELSE LET lr == t.nodes[lc].right
             h1 == IF lr # Null THEN [t.nodes EXCEPT ![lr].parent = r]
                   ELSE t.nodes
             h2 == [h1 EXCEPT ![r].left = lr, ![lc].right = Null]
             h3 == [h2 EXCEPT ![lc].parent = h2[r].parent, ![r].parent = lc]
             h4 == update_height(h3, r)
             h5 == [h4 EXCEPT ![lc].right = r]
             h6 == update_height(h5, lc)
         IN SlotSet([t EXCEPT !.nodes = h6], s, lc)

\* rotate_left that gives the node it moves up a null parent pointer.
rotate_left_NullParent(t, s) ==
    LET r == SlotGet(t, s) IN
    IF r = Null THEN t
    ELSE LET rc == t.nodes[r].right IN
    IF rc = Null THEN t
    ELSE LET rl == t.nodes[rc].left
             h1 == IF rl # Null THEN [t.nodes EXCEPT ![rl].parent = r]
                   ELSE t.nodes
             h2 == [h1 EXCEPT ![r].right = rl, ![rc].left = Null]
             h3 == [h2 EXCEPT ![rc].parent = Null, ![r].parent = rc]
             h4 == update_height(h3, r)
             h5 == [h4 EXCEPT ![rc].left = r]
             h6 == update_height(h5, rc)
         IN SlotSet([t EXCEPT !.nodes = h6], s, rc)

rotate_left(t, s) ==
    LET r == SlotGet(t, s) IN
    IF r = Null THEN t
    ELSE LET rc == t.nodes[r].right IN
    IF rc = Null THEN t
    ELSE LET rl == t.nodes[rc].left
             \* left.parent = &mut *root
             h1 == IF rl # Null THEN [t.nodes EXCEPT ![rl].parent = r]
                   ELSE t.nodes
             \* root.right = right_child.left.take()
             h2 == [h1 EXCEPT ![r].right = rl, ![rc].left = Null]
             \* right_child.parent = root.parent; root.parent = right_child
             h3 == [h2 EXCEPT ![rc].parent = h2[r].parent, ![r].parent = rc]
             h4 == update_height(h3, r)
             h5 == [h4 EXCEPT ![rc].left = r]
             h6 == update_height(h5, rc)
         IN SlotSet([t EXCEPT !.nodes = h6], s, rc)

\* rotate_right that leaves the parent pointer of the subtree that changes
\* sides as it was.
rotate_right_NoReparent(t, s) ==
    LET r == SlotGet(t, s) IN
    IF r = Null THEN t
    ELSE LET lc == t.nodes[r].left IN
    IF lc = Null THEN t
    ELSE LET lr == t.nodes[lc].right
             h2 == [t.nodes EXCEPT ![r].left = lr, ![lc].right = Null]
             h3 == [h2 EXCEPT ![lc].parent = h2[r].parent, ![r].parent = lc]
             h4 == update_height(h3, r)
             h5 == [h4 EXCEPT ![lc].right = r]
             h6 == update_height(h5, lc)
         IN SlotSet([t EXCEPT !.nodes = h6], s, lc)

\* rotate_right that does not recompute the height of the node it moves
\* down.
rotate_right_RootHeightStale(t, s) ==
    LET r == SlotGet(t, s) IN
    IF r = Null THEN t
    ELSE LET lc == t.nodes[r].left IN
    IF lc = Null THEN t
    ELSE LET lr == t.nodes[lc].right
             h1 == IF lr # Null THEN [t.nodes EXCEPT ![lr].parent = r]
                   ELSE t.nodes
             h2 == [h1 EXCEPT ![r].left = lr, ![lc].right = Null]
             h3 == [h2 EXCEPT ![lc].parent = h2[r].parent, ![r].parent = lc]
             h5 == [h3 EXCEPT ![lc].right = r]
             h6 == update_height(h5, lc)
         IN SlotSet([t EXCEPT !.nodes = h6], s, lc)

rotate_right(t, s) ==
    LET r == SlotGet(t, s) IN
    IF r = Null THEN t
    ELSE LET lc == t.nodes[r].left IN
    IF lc = Null THEN t
    ELSE LET lr == t.nodes[lc].right
             h1 == IF lr # Null THEN [t.nodes EXCEPT ![lr].parent = r]
                   ELSE t.nodes
             h2 == [h1 EXCEPT ![r].left = lr, ![lc].right = Null]
             h3 == [h2 EXCEPT ![lc].parent = h2[r].parent, ![r].parent = lc]
             h4 == update_height(h3, r)
             h5 == [h4 EXCEPT ![lc].right = r]
             h6 == update_height(h5, lc)
         IN SlotSet([t EXCEPT !.nodes = h6], s, lc)

big_rotate_left(t, s) ==
    LET r == SlotGet(t, s) IN
    IF r = Null THEN t
    ELSE rotate_left(rotate_right(t, RightSlot(r)), s)

big_rotate_right(t, s) ==
    LET r == SlotGet(t, s) IN
    IF r = Null THEN t
    ELSE rotate_right(rotate_left(t, LeftSlot(r)), s)

\* ------------------------------------------------------ rebalancing walk
\* get_mutable_node_reference: the slot that owns node a, or NoSlot where the
\* code panics with "broken tree".
\* A lookup that takes a node that is not the left child of its parent for
\* the right child.
get_mutable_node_reference_AssumesRight(t, a) ==
    IF t.nodes[a].parent = Null
    THEN IF t.root # Null /\ t.root = a THEN RootSlot ELSE NoSlot
    ELSE IF is_left_child(t.nodes, t.nodes[a].parent, a)
    THEN LeftSlot(t.nodes[a].parent)
    ELSE RightSlot(t.nodes[a].parent)

get_mutable_node_reference(t, a) ==
    IF t.nodes[a].parent = Null
    THEN IF t.root # Null /\ t.root = a THEN RootSlot ELSE NoSlot
    ELSE LET p == t.nodes[a].parent IN
         IF is_left_child(t.nodes, p, a) THEN LeftSlot(p)
         ELSE IF is_right_child(t.nodes, p, a) THEN RightSlot(p)
         ELSE NoSlot

\* The child's balance factor the rotation choice looks at (0 when absent).
ChildBalance(h, c) == IF c = Null THEN 0 ELSE balance_factor(h, c)

\* A choice that has no double rotation: nothing is done where one is due.
ChooseRotation_NoDouble(bf, rbf, lbf) ==
    IF bf = -2
    THEN IF rbf = -1 \/ rbf = 0 THEN "rotate_left" ELSE "none"
    ELSE IF bf = 2
    THEN IF lbf = 1 \/ lbf = 0 THEN "rotate_right" ELSE "none"
    ELSE "none"

\* A choice that takes the double rotation when the taller child is even.
ChooseRotation_ZeroIsDouble(bf, rbf, lbf) ==
    IF bf = -2
    THEN IF rbf = -1 THEN "rotate_left"
         ELSE IF rbf = 1 \/ rbf = 0 THEN "big_rotate_left"
         ELSE "none"
    ELSE IF bf = 2
    THEN IF lbf = 1 THEN "rotate_right"
         ELSE IF lbf = -1 \/ lbf = 0 THEN "big_rotate_right"
         ELSE "none"
    ELSE "none"

\* A choice that rotates a right-heavy node left whatever its right child.
ChooseRotation_AlwaysLeft(bf, rbf, lbf) ==
    IF bf = -2 THEN "rotate_left"
    ELSE IF bf = 2
    THEN IF lbf = 1 \/ lbf = 0 THEN "rotate_right"
         ELSE IF lbf = -1 THEN "big_rotate_right"
         ELSE "none"
    ELSE "none"

\* A choice that does nothing at balance factor -2 when the right child is
\* evenly balanced.
ChooseRotation_SkipsEven(bf, rbf, lbf) ==
    IF bf = -2
    THEN IF rbf = -1 THEN "rotate_left"
         ELSE IF rbf = 1 THEN "big_rotate_left"
         ELSE "none"
    ELSE IF bf = 2
    THEN IF lbf = 1 \/ lbf = 0 THEN "rotate_right"
         ELSE IF lbf = -1 THEN "big_rotate_right"
         ELSE "none"
    ELSE "none"

\* The rotation update_heights_and_rebalance picks for a node with balance
\* factor bf: rbf and lbf are the balance factors of its right and left child.
ChooseRotation(bf, rbf, lbf) ==
    IF bf = -2
    THEN IF rbf = -1 \/ rbf = 0 THEN "rotate_left"
         ELSE IF rbf = 1 THEN "big_rotate_left"
         ELSE "none"
    ELSE IF bf = 2
    THEN IF lbf = 1 \/ lbf = 0 THEN "rotate_right"
         ELSE IF lbf = -1 THEN "big_rotate_right"
         ELSE "none"
    ELSE "none"

ApplyRotation(t, s, rot) ==
    IF rot = "rotate_left" THEN rotate_left(t, s)
    ELSE IF rot = "big_rotate_left" THEN big_rotate_left(t, s)
    ELSE IF rot = "rotate_right" THEN rotate_right(t, s)
    ELSE IF rot = "big_rotate_right" THEN big_rotate_right(t, s)
    ELSE t

\* One record of the walk's log: the node visited, its balance factor right
\* after update_height, and what was done there.
\* The children of the node and their balance factors are those the rotation
\* was chosen on (heap h, after update_height and before any rotation).
Visit(h, a, bf, rot) ==
    [node |-> a, bf |-> bf, rot |-> rot,
     right |-> h[a].right, left |-> h[a].left,
     rbf |-> ChildBalance(h, h[a].right), lbf |-> ChildBalance(h, h[a].left),
     rl |-> IF h[a].right = Null THEN Null ELSE h[h[a].right].left,
     lr |-> IF h[a].left = Null THEN Null ELSE h[h[a].left].right,
     up |-> h[a].parent, top |-> Null, post |-> <<>>]

\* The record of a visit that called a rotation on slot s, t2 being the tree
\* after it: `up` is the parent pointer current_node has then, `top` the node
\* the rotation left in the slot and `post` the heap right after the rotation.
Rotation(t2, h, a, bf, rot, s) ==
    [Visit(h, a, bf, rot) EXCEPT !.up = t2.nodes[a].parent,
                                 !.top = SlotGet(t2, s),
                                 !.post = t2.nodes]

\* One iteration of the loop of update_heights_and_rebalance at node cur, up
\* to (not including) the step to the parent.
RebalanceNode(t, cur) ==
    LET h1 == update_height(t.nodes, cur)
        t1 == [t EXCEPT !.nodes = h1]
        bf == balance_factor(h1, cur)
    IN IF Abs(bf) >= 2
       THEN LET s == get_mutable_node_reference(t1, cur) IN
            IF s = NoSlot
            THEN [t1 EXCEPT !.panicked = TRUE,
                            !.log = Append(@, Visit(h1, cur, bf, "panic"))]
            ELSE LET rot == ChooseRotation(bf,
                                ChildBalance(h1, h1[cur].right),
                                ChildBalance(h1, h1[cur].left))
                     t2 == ApplyRotation(t1, s, rot)
                 IN [t2 EXCEPT !.log = Append(@, Rotation(t2, h1, cur, bf, rot, s))]
       ELSE [t1 EXCEPT !.log = Append(@, Visit(h1, cur, bf, "none"))]

\* A walk that also ends at the first node whose balance factor is 0.
WalkStopsAtZero(t, cur, stop_factor) ==
    t.nodes[cur].parent # Null /\ balance_factor(t.nodes, cur) # 0

\* A walk that ends below the root, without visiting it.
WalkEndsBelowRoot(t, cur, stop_factor) ==
    t.nodes[cur].parent # Null /\ t.nodes[cur].parent # t.root

\* A walk that ends at the node it has just rotated at.
WalkEndsAfterRotation(t, cur, stop_factor) ==
    t.nodes[cur].parent # Null /\ t.log[Len(t.log)].rot = "none"

\* Whether the walk goes on from cur to its parent.  The _stop_factor
\* argument is not read: the loop ends only at a node with a null parent.
WalkContinues(t, cur, stop_factor) == t.nodes[cur].parent # Null

\* update_heights_and_rebalance from from_node to the root; WalkOn is the end
\* of one iteration, t1 being the tree after the loop body at from_node.
RECURSIVE update_heights_and_rebalance(_, _, _)
RECURSIVE WalkOn(_, _, _)
WalkOn(t1, from_node, stop_factor) ==
    IF t1.panicked THEN t1
    ELSE IF WalkContinues(t1, from_node, stop_factor)
    THEN update_heights_and_rebalance(t1, t1.nodes[from_node].parent, stop_factor)
    ELSE t1

update_heights_and_rebalance(t, from_node, stop_factor) ==
    WalkOn(RebalanceNode(t, from_node), from_node, stop_factor)

\* A call of update_heights_and_rebalance by insert or by one of the removal
\* functions; `start` keeps the tree as that call finds it.
StartWalk(t, from_node, stop_factor) ==
    update_heights_and_rebalance(
        [t EXCEPT !.start = [nodes |-> t.nodes, root |-> t.root,
                             from |-> from_node]],
        from_node, stop_factor)

\* A leaf removal that does not walk up from the parent.
WalkFrom_Skipped(t, p, stop_factor) == t

\* `if let Some(parent_node) = parent_node { self.update_heights_and_rebalance(..) }`
WalkFrom(t, p, stop_factor) ==
    IF p # Null THEN StartWalk(t, p, stop_factor) ELSE t

\* ----------------------------------------------------------------- insert
\* A descent that takes an equal key to the right instead of stopping.
RECURSIVE InsertDescent_EqualGoesRight(_, _, _, _)
InsertDescent_EqualGoesRight(t, s, parent, k) ==
    LET n == SlotGet(t, s) IN
    IF n = Null THEN [found |-> Null, slot |-> s, parent |-> parent]
    ELSE IF k < t.nodes[n].key
    THEN InsertDescent_EqualGoesRight(t, LeftSlot(n), n, k)
    ELSE InsertDescent_EqualGoesRight(t, RightSlot(n), n, k)

\* The descent of insert from slot s, parent being the last node visited:
\* the node holding k, or the empty slot where the descent ended.
RECURSIVE InsertDescent(_, _, _, _)
InsertDescent(t, s, parent, k) ==
    LET n == SlotGet(t, s) IN
    IF n = Null THEN [found |-> Null, slot |-> s, parent |-> parent]
    ELSE IF k < t.nodes[n].key THEN InsertDescent(t, LeftSlot(n), n, k)
    ELSE IF k > t.nodes[n].key THEN InsertDescent(t, RightSlot(n), n, k)
    ELSE [found |-> n, slot |-> s, parent |-> n]

\* A replacement that also counts the key as a new one.
InsertReplace_Counts(t, n, v) ==
    [t EXCEPT !.nodes[n].value = v, !.ret = t.nodes[n].value, !.size = @ + 1]

\* A replacement that returns the stored value and does not store the new one.
InsertReplace_NoStore(t, n, v) ==
    [t EXCEPT !.ret = t.nodes[n].value]

\* The Equal arm of insert: std::mem::replace on the value of node n.
InsertReplace(t, n, v) ==
    [t EXCEPT !.nodes[n].value = v, !.ret = t.nodes[n].value]

\* A link that leaves the parent pointer of the new node null.
InsertLink_NoParent(t, d, a, k, v) ==
    SlotSet([t EXCEPT !.nodes = (a :> NewNode(k, v)) @@ t.nodes], d.slot, a)

\* The new node a, holding (k, v), linked into the empty slot where the
\* descent d ended, its parent pointer the last node visited.
InsertLink(t, d, a, k, v) ==
    SlotSet([t EXCEPT !.nodes =
                (a :> [NewNode(k, v) EXCEPT !.parent = d.parent]) @@ t.nodes],
            d.slot, a)

\* An insert that links the new node and walks nowhere.
InsertWalk_Skipped(t1, a, parent) == t1

\* The walk from the parent of the new node a, when it has one.
InsertWalk(t1, a, parent) ==
    IF t1.nodes[a].parent # Null
    THEN StartWalk(t1, parent, 0)
    ELSE t1

\* self.size += 1; None
InsertFinish(t2) ==
    IF t2.panicked THEN t2 ELSE [t2 EXCEPT !.size = @ + 1, !.ret = None]

InsertNew(t, d, a, k, v) ==
    InsertFinish(InsertWalk(InsertLink(t, d, a, k, v), a, d.parent))

InsertAt(t, d, k, v) ==
    IF d.found # Null THEN InsertReplace(t, d.found, v)
    ELSE InsertNew(t, d, BoxNew(t.nodes, k), k, v)

\* AvlTree::insert.  The result is the tree with the returned Option<V> in ret.
insert(t, k, v) == InsertAt(t, InsertDescent(t, RootSlot, Null, k), k, v)

\* ------------------------------------------------- the draft AVLTree (avl.rs)
\* The draft keeps the node type, the four rotations, the rotation choice
\* and get_mutable_node_reference of the final tree word for word; it has no
\* size field and no remove.  Its walk has two returns the final one lacks.

\* A draft walk that returns at every node.
AVLTree_Returns_Always(h, cur) == TRUE

\* `if current_node.balance_factor() == 0 { return; }`, after update_height
\* and again after a rotation.
AVLTree_Returns(h, cur) == balance_factor(h, cur) = 0

\* AVLTree::update_heights_and_rebalance of the draft.
RECURSIVE AVLTree_update_heights_and_rebalance(_, _)
AVLTree_update_heights_and_rebalance(t, from_node) ==
    LET h1 == update_height(t.nodes, from_node) IN
    IF AVLTree_Returns(h1, from_node)
    THEN [t EXCEPT !.nodes = h1,
                   !.log = Append(@, Visit(h1, from_node, 0, "none"))]
    ELSE LET t2 == RebalanceNode(t, from_node) IN
         IF t2.panicked THEN t2
         ELSE IF /\ Abs(balance_factor(h1, from_node)) >= 2
                 /\ AVLTree_Returns(t2.nodes, from_node)
         THEN t2
         ELSE IF t2.nodes[from_node].parent # Null
         THEN AVLTree_update_heights_and_rebalance(
                  t2, t2.nodes[from_node].parent)
         ELSE t2

\* The walk of the draft's insert from the parent of the new node a.
AVLTree_InsertWalk(t1, a) ==
    IF t1.nodes[a].parent # Null
    THEN AVLTree_update_heights_and_rebalance(t1, t1.nodes[a].parent)
    ELSE t1

AVLTree_InsertNew(t, d, a, k, v) ==
    LET t2 == AVLTree_InsertWalk(InsertLink(t, d, a, k, v), a)
    IN IF t2.panicked THEN t2 ELSE [t2 EXCEPT !.ret = None]

AVLTree_InsertAt(t, d, k, v) ==
    IF d.found # Null THEN InsertReplace(t, d.found, v)
    ELSE AVLTree_InsertNew(t, d, BoxNew(t.nodes, k), k, v)

\* AVLTree::insert of the draft.
AVLTree_insert(t, k, v) ==
    AVLTree_InsertAt(t, InsertDescent(t, RootSlot, Null, k), k, v)

\* -------------------------------------------------------------------- get
\* A lookup that turns the wrong way at a larger key.
RECURSIVE get_WrongTurn(_, _, _)
get_WrongTurn(h, n, k) ==
    IF n = Null THEN None
    ELSE IF k < h[n].key THEN get_WrongTurn(h, h[n].left, k)
    ELSE IF k > h[n].key THEN get_WrongTurn(h, h[n].left, k)
    ELSE h[n].value

RECURSIVE get(_, _, _)
get(h, n, k) ==
    IF n = Null THEN None
    ELSE IF k < h[n].key THEN get(h, h[n].left, k)
    ELSE IF k > h[n].key THEN get(h, h[n].right, k)
    ELSE h[n].value

contains(h, n, k) == get(h, n, k) # None

\* ----------------------------------------------------------------- remove
\* The descent of remove: the slot where it stops (holding the node with key
\* k, or empty) and the NodeType recorded on the way.
RECURSIVE RemoveDescent(_, _, _, _)
RemoveDescent(t, s, node_type, k) ==
    LET n == SlotGet(t, s) IN
    IF n = Null THEN [slot |-> s, node_type |-> node_type]
    ELSE IF k < t.nodes[n].key THEN RemoveDescent(t, LeftSlot(n), "LeftChild", k)
    ELSE IF k > t.nodes[n].key THEN RemoveDescent(t, RightSlot(n), "RightChild", k)
    ELSE [slot |-> s, node_type |-> node_type]

\* Dropping a Box<AVLTreeNode> frees the node and the subtrees it still owns.
RECURSIVE Owned(_, _)
Owned(h, a) ==
    IF a = Null THEN {}
    ELSE {a} \cup Owned(h, h[a].left) \cup Owned(h, h[a].right)

DropBox(h, a) == [x \in DOMAIN h \ Owned(h, a) |-> h[x]]

\* `match node_type` in remove_one_child_node and remove_two_children_node:
\* the slot of parent p the replacement goes to; the Root arm is unreachable!().
ParentSlot(p, node_type) ==
    IF node_type = "LeftChild" THEN LeftSlot(p)
    ELSE IF node_type = "RightChild" THEN RightSlot(p)
    ELSE NoSlot

\* `node.parent = std::ptr::null_mut(); node` at the end of the three removal
\* functions, t1 being the tree after the walk.
ReturnRemoved(t1, n) ==
    IF t1.panicked THEN t1 ELSE [t1 EXCEPT !.nodes[n].parent = Null]

\* A leaf removal that starts its walk at the root of the tree.
remove_leaf_node_WalksFromRoot(t, n) ==
    ReturnRemoved(WalkFrom(t, t.root, 1), n)

\* The node n has already been taken out of its slot.
remove_leaf_node(t, n) ==
    ReturnRemoved(WalkFrom(t, t.nodes[n].parent, 1), n)

\* node.left.take().unwrap() or node.right.take().unwrap()
TakeChild(t, n) ==
    IF t.nodes[n].left # Null
    THEN [t EXCEPT !.nodes[n].left = Null]
    ELSE [t EXCEPT !.nodes[n].right = Null]

\* A promotion that leaves the child's parent pointer on the removed node.
PromoteChild_NoReparent(t0, p, s, child) ==
    IF s = NoSlot THEN [t0 EXCEPT !.panicked = TRUE]
    ELSE StartWalk(SlotSet(t0, s, child), p, 1)

\* The child linked to the parent p of the removed node, in slot s.
PromoteChild(t0, p, s, child) ==
    IF s = NoSlot THEN [t0 EXCEPT !.panicked = TRUE]
    ELSE StartWalk(
             SlotSet([t0 EXCEPT !.nodes[child].parent = p], s, child), p, 1)

remove_one_child_node(t, n, node_type) ==
    LET p     == t.nodes[n].parent
        child == IF t.nodes[n].left # Null THEN t.nodes[n].left
                 ELSE t.nodes[n].right
    IN IF p # Null
       THEN ReturnRemoved(
                PromoteChild(TakeChild(t, n), p, ParentSlot(p, node_type), child), n)
       ELSE [TakeChild(t, n) EXCEPT !.nodes[child].parent = Null,
                                    !.root = child,
                                    !.nodes[n].parent = Null]

\* Line 254: is_successor_direct_child = node.right.is_none(), read once the
\* successor has been taken out of its slot.
MarkDirect(t1, n) == [t1 EXCEPT !.direct = (t1.nodes[n].right = Null)]

\* Lines 246-254: the successor taken out of the slot that owns it
\* (get_mutable_node_reference(..).take().unwrap()).
TakeSuccessor(t, n, succ, s) ==
    IF s = NoSlot \/ SlotGet(t, s) = Null
    THEN [t EXCEPT !.panicked = TRUE]
    ELSE MarkDirect([SlotSet(t, s, Null) EXCEPT
                        !.succ = succ,
                        !.successor_parent = t.nodes[succ].parent],
                    n)

\* A successor that does not take over the left subtree of the removed node.
GiveLeft_Drops(t1, n) ==
    [t1 EXCEPT !.nodes[n].left = Null, !.nodes[t1.succ].left = Null]

\* Lines 258-261: successor_node.left = node.left.take(), re-parented.
GiveLeft(t1, n) ==
    LET nl == t1.nodes[n].left IN
    IF nl # Null
    THEN [t1 EXCEPT !.nodes[nl].parent = t1.succ, !.nodes[n].left = Null,
                    !.nodes[t1.succ].left = nl]
    ELSE [t1 EXCEPT !.nodes[t1.succ].left = Null]

\* Lines 263-266: the right subtrees of node and successor swapped, the
\* successor's new right child re-parented.
SwapRight(t2, n) ==
    IF ~t2.direct
    THEN LET nr == t2.nodes[n].right
             sr == t2.nodes[t2.succ].right
         IN IF nr = Null THEN [t2 EXCEPT !.panicked = TRUE]
            ELSE [t2 EXCEPT !.nodes[n].right = sr, !.nodes[t2.succ].right = nr,
                            !.nodes[nr].parent = t2.succ]
    ELSE t2

\* Lines 268-285: the successor installed in the removed node's slot.
InstallSuccessor(t3, p, sp) ==
    IF sp = NoSlot THEN [t3 EXCEPT !.panicked = TRUE]
    ELSE SlotSet([t3 EXCEPT !.nodes[t3.succ].parent = p], sp, t3.succ)

SwapSteps(t1, n, p, node_type) ==
    IF t1.panicked THEN t1
    ELSE InstallSuccessor(SwapRight(GiveLeft(t1, n), n), p,
                          IF p # Null THEN ParentSlot(p, node_type) ELSE RootSlot)

\* A swap that takes the right child of the removed node as the successor,
\* whether or not it has a left child.
SuccessorSwap_TakesRightChild(t, n, node_type) ==
    LET succ == t.nodes[n].right
    IN SwapSteps(TakeSuccessor(t, n, succ, get_mutable_node_reference(t, succ)),
                 n, t.nodes[n].parent, node_type)

\* The first half of remove_two_children_node, up to and including the
\* installation of the successor in the removed node's slot (lines 244-285).
SuccessorSwap(t, n, node_type) ==
    LET succ == find_leftmost_node(t.nodes, t.nodes[n].right)
    IN SwapSteps(TakeSuccessor(t, n, succ, get_mutable_node_reference(t, succ)),
                 n, t.nodes[n].parent, node_type)

\* A walk that always starts at the successor in its new position.
TwoChildrenWalkStart_AlwaysSuccessor(succ, successor_parent, direct) == succ

\* Where the rebalancing walk of a two-children removal starts.
TwoChildrenWalkStart(succ, successor_parent, direct) ==
    IF direct THEN succ ELSE successor_parent

\* A splice that leaves the parent pointer of the successor's former right
\* child on the successor.
SpliceOut_NoReparent(t5, n) ==
    IF ~t5.direct
    THEN LET repl == t5.nodes[n].right
             sp   == t5.successor_parent
             h1 == [t5.nodes EXCEPT ![sp].left = repl, ![n].right = Null]
         IN [t5 EXCEPT !.nodes = update_height(h1, t5.succ)]
    ELSE t5

\* Lines 287-298: the successor's former right child put in its place and the
\* successor's height recomputed, when it was not the direct child.
SpliceOut(t5, n) ==
    IF ~t5.direct
    THEN LET repl == t5.nodes[n].right
             sp   == t5.successor_parent
             h1 == [t5.nodes EXCEPT ![sp].left = repl, ![n].right = Null]
             h2 == IF repl # Null THEN [h1 EXCEPT ![repl].parent = sp] ELSE h1
         IN [t5 EXCEPT !.nodes = update_height(h2, t5.succ)]
    ELSE t5

TwoChildrenFinish(t5, n) ==
    IF t5.panicked THEN t5
    ELSE ReturnRemoved(
             StartWalk(
                 SpliceOut(t5, n),
                 TwoChildrenWalkStart(t5.succ, t5.successor_parent, t5.direct),
                 1),
             n)

remove_two_children_node(t, n, node_type) ==
    TwoChildrenFinish(SuccessorSwap(t, n, node_type), n)

\* A remove that decrements size before it knows the key is stored.
RemoveAbsent_Decrements(t) ==
    [t EXCEPT !.ret = None, !.size = IF @ > 0 THEN @ - 1 ELSE @,
              !.panicked = (t.size = 0)]

\* `current.take()?` on an empty slot: remove returns None.
RemoveAbsent(t) == [t EXCEPT !.ret = None]

\* Lines 104-110: the removal function for the shape of the taken node n.
RemoveDispatch(t1, n, node_type) ==
    IF t1.nodes[n].left = Null /\ t1.nodes[n].right = Null
    THEN remove_leaf_node(t1, n)
    ELSE IF t1.nodes[n].left # Null /\ t1.nodes[n].right # Null
    THEN remove_two_children_node(t1, n, node_type)
    ELSE remove_one_child_node(t1, n, node_type)

\* The value moved out of the removed node, and the node dropped.
RemoveFinish(t2, n) ==
    IF t2.panicked THEN t2
    ELSE [t2 EXCEPT !.ret = t2.nodes[n].value, !.nodes = DropBox(t2.nodes, n)]

\* A removal that leaves size as it was.
RemoveFound_NoDecrement(t, d, n) ==
    RemoveFinish(RemoveDispatch(SlotSet(t, d.slot, Null), n, d.node_type), n)

\* `current.take()?` and `self.size -= 1`, then the removal of node n.
RemoveFound(t, d, n) ==
    RemoveFinish(
        RemoveDispatch([SlotSet(t, d.slot, Null) EXCEPT !.size = @ - 1],
                       n, d.node_type),
        n)

RemoveAt(t, d) ==
    IF SlotGet(t, d.slot) = Null THEN RemoveAbsent(t)
    ELSE RemoveFound(t, d, SlotGet(t, d.slot))

\* AvlTree::remove.  The removed Box is dropped once its value is moved out.
remove(t, k) == RemoveAt(t, RemoveDescent(t, RootSlot, "Root", k))

\* ------------------------------------------------------------- min / max
\* Option<(&K, &V)>: <<>> for none, <<key, value>> otherwise.
Entry(h, a) == <<h[a].key, h[a].value>>

min(h, r) == IF r = Null THEN <<>> ELSE Entry(h, find_leftmost_node(h, r))

\* A max that descends to the left like min.
max_Leftmost(h, r) ==
    IF r = Null THEN <<>> ELSE Entry(h, find_leftmost_node(h, r))

max(h, r) == IF r = Null THEN <<>> ELSE Entry(h, find_rightmost_node(h, r))

\* ------------------------------------------------------- AvlTreeIterator
\* A climb that gives up when it comes up through a right child.
Climb_GivesUp(h, current, parent) ==
    IF parent = Null THEN Null
    ELSE IF h[parent].right # Null /\ h[parent].right = current THEN Null
    ELSE parent

\* The climb of find_successor: from `current`, whose parent is `parent`.
RECURSIVE Climb(_, _, _)
Climb(h, current, parent) ==
    IF parent = Null THEN Null
    ELSE IF h[parent].right # Null /\ h[parent].right = current
    THEN Climb(h, parent, h[parent].parent)
    ELSE parent

\* A successor that takes the right child itself, not its leftmost node.
find_successor_NoDescent(h, a) ==
    IF h[a].right # Null THEN h[a].right
    ELSE Climb(h, a, h[a].parent)

find_successor(h, a) ==
    IF h[a].right # Null THEN find_leftmost_node(h, h[a].right)
    ELSE Climb(h, a, h[a].parent)

\* AvlTreeIterator::new: the first node the iterator will yield.
IterNew(h, r) == IF r = Null THEN Null ELSE find_leftmost_node(h, r)

\* The nodes the iterator yields from next_node on, by repeated next().
RECURSIVE IterNodes(_, _)
IterNodes(h, next_node) ==
    IF next_node = Null THEN <<>>
    ELSE <<next_node>> \o IterNodes(h, find_successor(h, next_node))

get_key_value(h, a) == <<h[a].key, h[a].value>>
get_key(h, a) == h[a].key
get_value(h, a) == h[a].value

iter(h, r) ==
    LET ns == IterNodes(h, IterNew(h, r))
    IN [i \in 1..Len(ns) |-> get_key_value(h, ns[i])]

keys(h, r) ==
    LET ns == IterNodes(h, IterNew(h, r))
    IN [i \in 1..Len(ns) |-> get_key(h, ns[i])]

values(h, r) ==
    LET ns == IterNodes(h, IterNew(h, r))
    IN [i \in 1..Len(ns) |-> get_value(h, ns[i])]

\* ------------------------------------------------- reference ordered map
\* The reference the tests compare the tree with (a BTreeMap): a function
\* from the keys present to their values.
RefGet(m, k) == IF k \in DOMAIN m THEN m[k] ELSE None

RefInsert(m, k, v) == [x \in DOMAIN m \cup {k} |-> IF x = k THEN v ELSE m[x]]

RefRemove(m, k) == [x \in DOMAIN m \ {k} |-> m[x]]

RECURSIVE SortedSeq(_)
SortedSeq(S) ==
    IF S = {} THEN <<>>
    ELSE LET m == CHOOSE x \in S : \A y \in S : x <= y
         IN <<m>> \o SortedSeq(S \ {m})

RefKeys(m) == SortedSeq(DOMAIN m)

RefItems(m) == LET ks == RefKeys(m) IN [i \in 1..Len(ks) |-> <<ks[i], m[ks[i]]>>]

RefValues(m) == LET ks == RefKeys(m) IN [i \in 1..Len(ks) |-> m[ks[i]]]

RefMin(m) == IF DOMAIN m = {} THEN <<>> ELSE RefItems(m)[1]

RefMax(m) == IF DOMAIN m = {} THEN <<>> ELSE RefItems(m)[Len(RefItems(m))]

\* ------------------------------------------------- AvlTreeOwnedIterator
\* The loop of AvlTreeOwnedIterator::new and of next: from `current` down the
\* left links, every node detached from its parent and from its left child,
\* then pushed on the stack.
RECURSIVE PushLeftSpine(_, _)
PushLeftSpine(it, current) ==
    IF current = Null THEN it
    ELSE PushLeftSpine(
             [it EXCEPT !.nodes[current].parent = Null,
                        !.nodes[current].left = Null,
                        !.stack = Append(@, current)],
             it.nodes[current].left)

\* AvlTreeOwnedIterator::new(tree), reached through AvlTree::into_iter: the
\* iterator owns the nodes of the tree it consumed.
OwnedNew(h, r) ==
    PushLeftSpine([nodes |-> h, stack |-> <<>>, ret |-> <<>>], r)

\* A next that pushes the right child alone, not the left spine below it.
OwnedDescend_RightOnly(it, current) ==
    IF current = Null THEN it
    ELSE [it EXCEPT !.nodes[current].parent = Null,
                    !.stack = Append(@, current)]

\* `let mut current = node.right.take(); while let Some(mut node) = current`
OwnedDescend(it, current) == PushLeftSpine(it, current)

\* `Some((node.key, node.value))`: the pair moved out and the Box freed.
OwnedYield(it1, node) ==
    [it1 EXCEPT !.ret = <<it1.nodes[node].key, it1.nodes[node].value>>,
                !.nodes = [x \in DOMAIN it1.nodes \ {node} |-> it1.nodes[x]]]

\* The node popped off the stack, its right link taken.
OwnedPop(it, node) ==
    [it EXCEPT !.stack = SubSeq(it.stack, 1, Len(it.stack) - 1),
               !.nodes[node].right = Null]

\* AvlTreeOwnedIterator::next; ret is <<>> for None.
OwnedNext(it) ==
    IF it.stack = <<>> THEN [it EXCEPT !.ret = <<>>]
    ELSE OwnedYield(
             OwnedDescend(OwnedPop(it, it.stack[Len(it.stack)]),
                          it.nodes[it.stack[Len(it.stack)]].right),
             it.stack[Len(it.stack)])

\* ------------------------------------------------------------ BloomFilter
MaxItem == 2
Items == 1..MaxItem

\* `for i in 0..2`: the seeds an item is hashed with.
HashCount == 2
Seeds == 0..(HashCount - 1)

\* The width of `bits: u128`, and the modulus of `hash % 128`.
BitCount == 128

\* The u64 hash values the model draws the hash function from: the lowest
\* and the highest bit index, and values that wrap around the modulus.
HashSamples == {0, 1, BitCount - 1, BitCount}

\* The hash functions: a value for every (item, seed).  DefaultHasher is
\* deterministic, so one function serves a whole behaviour.
HashFunctions == [Items \X Seeds -> HashSamples]

\* The u128 is the set of the positions of its 1 bits: `1 << (hash % 128)`.
BitOf(hash) == {hash % BitCount}

\* BloomFilter::new()
BloomNew == {}

\* An insert that sets the bit of the first seed only.
RECURSIVE BloomInsert_FirstSeedOnly(_, _, _, _)
BloomInsert_FirstSeedOnly(bits, hash, item, i) ==
    IF i >= 1 THEN bits
    ELSE BloomInsert_FirstSeedOnly(bits \cup BitOf(hash[<<item, i>>]),
                                   hash, item, i + 1)

\* BloomFilter::insert, from seed i on: `self.bits |= 1 << (hash % 128)`.
RECURSIVE BloomInsert(_, _, _, _)
BloomInsert(bits, hash, item, i) ==
    IF i >= HashCount THEN bits
    ELSE BloomInsert(bits \cup BitOf(hash[<<item, i>>]), hash, item, i + 1)

\* BloomFilter::contains, from seed i on.
RECURSIVE BloomContains(_, _, _, _)
BloomContains(bits, hash, item, i) ==
    IF i >= HashCount THEN TRUE
    ELSE IF bits \cap BitOf(hash[<<item, i>>]) = {} THEN FALSE
    ELSE BloomContains(bits, hash, item, i + 1)

\* A clear that leaves the lowest bit as it was.
BloomClear_KeepsLowBit(bits) == bits \cap {0}

\* BloomFilter::clear: `self.bits = 0`.
BloomClear(bits) == {}

\* ------------------------------------------------------------ the system
\* The tree as an operation sees it: the fields of AvlTree, whether the
\* operation has panicked, its return value, the log of its rebalancing walk
\* and the locals of remove_two_children_node.
NoWalk == [nodes |-> <<>>, root |-> Null, from |-> Null]

Tree ==
    [nodes |-> nodes, root |-> root, size |-> size, panicked |-> FALSE,
     ret |-> None, log |-> <<>>, start |-> NoWalk,
     succ |-> Null, successor_parent |-> Null, direct |-> FALSE]

\* AvlTree::new(), as an operation sees it.
NewTree ==
    [nodes |-> <<>>, root |-> Null, size |-> 0, panicked |-> FALSE,
     ret |-> None, log |-> <<>>, start |-> NoWalk,
     succ |-> Null, successor_parent |-> Null, direct |-> FALSE]

\* A from_iter that keeps the first value given for a key.
RECURSIVE from_iter_FirstWins(_)
from_iter_FirstWins(pairs) ==
    IF pairs = <<>> THEN NewTree
    ELSE IF \E j \in 1..(Len(pairs) - 1) : pairs[j][1] = pairs[Len(pairs)][1]
    THEN from_iter_FirstWins(SubSeq(pairs, 1, Len(pairs) - 1))
    ELSE insert(from_iter_FirstWins(SubSeq(pairs, 1, Len(pairs) - 1)),
                pairs[Len(pairs)][1], pairs[Len(pairs)][2])

\* FromIterator::from_iter: `for i in iter { tree.insert(i.0, i.1); }` on a
\* new tree, pairs being what the iterator yields, in order.
RECURSIVE from_iter(_)
from_iter(pairs) ==
    IF pairs = <<>> THEN NewTree
    ELSE insert(from_iter(SubSeq(pairs, 1, Len(pairs) - 1)),
                pairs[Len(pairs)][1], pairs[Len(pairs)][2])

\* AvlTree::size and AvlTree::is_empty
tree_size(sz) == sz
is_empty(sz) == sz = 0

\* What `last` records of a call: the operation and its arguments, what it
\* returned (ret: an Option<V>; entry: an Option<(K, V)>; items: what an
\* iterator yielded), what the reference map returned, whether the key was
\* stored and the size before the call, the walk's log and the locals of
\* remove_two_children_node.
Call(op, k, v) ==
    [op |-> op, key |-> k, value |-> v, ret |-> None, refRet |-> None,
     entry |-> <<>>, items |-> <<>>, log |-> <<>>, start |-> NoWalk,
     succ |-> Null, successor_parent |-> Null, direct |-> FALSE,
     found |-> FALSE, pre_size |-> size]

\* What `drain` records of a fill-then-drain run: the pairs inserted so far
\* (while no key has been removed), how many inserts and removes there were,
\* and whether every insert brought a new key.
NoDrain == [pairs |-> <<>>, n |-> 0, i |-> 0, distinct |-> TRUE]

\* No consuming iterator: the tree has not been moved into one.  Once it
\* has, `owned` holds the iterator (the nodes it owns, its stack, what the
\* last next() returned), everything it has yielded and the number of calls.
NoIter ==
    [consumed |-> FALSE, nodes |-> <<>>, stack |-> <<>>, ret |-> <<>>,
     yielded |-> <<>>, calls |-> 0]

\* No lookup of a node's slot is being examined and no rotation has been
\* applied.  `probe` holds the tree a private function is applied to (t), the
\* node or slot it is given and what it returned; for a rotation, also the
\* tree before it (pre) and which rotation it was (rot).
NoProbe ==
    [t |-> NewTree, node |-> Null, done |-> FALSE, slot |-> NoSlot,
     pre |-> NewTree, rot |-> "none"]

\* A new filter, with the hash function that sends everything to 0; `bloom`
\* holds the bits, the hash function, the items inserted since the filter
\* was new or cleared, and the last call: its argument, what it returned and
\* the bits it found.
NoBloom ==
    [bits |-> BloomNew, hash |-> [x \in Items \X Seeds |-> 0], inserted |-> {},
     op |-> "new", item |-> 0, ret |-> FALSE, before |-> BloomNew]

\* A new, empty tree: AvlTree::new().
InitTree ==
    /\ nodes = <<>>
    /\ root = Null
    /\ size = 0
    /\ panicked = FALSE
    /\ ref = <<>>
    /\ last = Call("new", 0, 0)

Init ==
    /\ InitTree
    /\ drain = NoDrain
    /\ owned = NoIter
    /\ probe = NoProbe
    /\ bloom = NoBloom

\* The fields of AvlTree, and the panic flag, as the call leaves them.
Store(t) ==
    /\ nodes' = t.nodes
    /\ root' = t.root
    /\ size' = t.size
    /\ panicked' = t.panicked

InsertReturn(t, k, v) ==
    /\ Store(t)
    /\ ref' = RefInsert(ref, k, v)
    /\ last' = [Call("insert", k, v) EXCEPT
                  !.ret = t.ret, !.refRet = RefGet(ref, k), !.log = t.log,
                  !.start = t.start,
                  !.found = (get(nodes, root, k) # None)]

Insert(k, v) ==
    /\ ~panicked
    /\ InsertReturn(insert(Tree, k, v), k, v)
    /\ UNCHANGED <<drain, owned, probe, bloom>>

RemoveReturn(t, k) ==
    /\ Store(t)
    /\ ref' = RefRemove(ref, k)
    /\ last' = [Call("remove", k, 0) EXCEPT
                  !.ret = t.ret, !.refRet = RefGet(ref, k), !.log = t.log,
                  !.start = t.start,
                  !.succ = t.succ, !.successor_parent = t.successor_parent,
                  !.direct = t.direct,
                  !.found = (get(nodes, root, k) # None)]

Remove(k) ==
    /\ ~panicked
    /\ RemoveReturn(remove(Tree, k), k)
    /\ UNCHANGED <<drain, owned, probe, bloom>>

Get(k) ==
    /\ ~panicked
    /\ last' = [Call("get", k, 0) EXCEPT
                  !.ret = get(nodes, root, k), !.refRet = RefGet(ref, k)]
    /\ UNCHANGED <<nodes, root, size, panicked, ref, drain, owned, probe, bloom>>

Min ==
    /\ ~panicked
    /\ last' = [Call("min", 0, 0) EXCEPT !.entry = min(nodes, root)]
    /\ UNCHANGED <<nodes, root, size, panicked, ref, drain, owned, probe, bloom>>

MaxEntry ==
    /\ ~panicked
    /\ last' = [Call("max", 0, 0) EXCEPT !.entry = max(nodes, root)]
    /\ UNCHANGED <<nodes, root, size, panicked, ref, drain, owned, probe, bloom>>

Iter ==
    /\ ~panicked
    /\ last' = [Call("iter", 0, 0) EXCEPT !.items = iter(nodes, root)]
    /\ UNCHANGED <<nodes, root, size, panicked, ref, drain, owned, probe, bloom>>

KeysIter ==
    /\ ~panicked
    /\ last' = [Call("keys", 0, 0) EXCEPT !.items = keys(nodes, root)]
    /\ UNCHANGED <<nodes, root, size, panicked, ref, drain, owned, probe, bloom>>

ValuesIter ==
    /\ ~panicked
    /\ last' = [Call("values", 0, 0) EXCEPT !.items = values(nodes, root)]
    /\ UNCHANGED <<nodes, root, size, panicked, ref, drain, owned, probe, bloom>>

Next ==
    \/ \E k \in Keys, v \in Vals : Insert(k, v)
    \/ \E k \in Keys : Remove(k)
    \/ \E k \in Keys : Get(k)
    \/ Min
    \/ MaxEntry
    \/ Iter
    \/ KeysIter
    \/ ValuesIter

Spec == Init /\ [][Next]_vars

\* The same operations on trees of up to MaxShapeKey nodes: insert and remove
\* only, every value being 1.
NextShape ==
    \/ \E k \in ShapeKeys : Insert(k, 1)
    \/ \E k \in ShapeKeys : Remove(k)

SpecShape == Init /\ [][NextShape]_vars

\* The variables of the tree, of its reference and of its last call.
treeVars == <<nodes, root, size, panicked, ref, last>>

\* ---------------------------------------------------------- fill and drain
\* A new tree is filled by at most MaxFill inserts of keys 1..MaxDrainKey,
\* the value of every pair being its position in the sequence, and then
\* drained: stored keys are removed, in any order, and nothing is inserted
\* again.
MaxDrainKey == 5
MaxFill == 5
DrainKeys == 1..MaxDrainKey

FillInsert(k) ==
    /\ ~panicked
    /\ drain.i = 0
    /\ drain.n < MaxFill
    /\ InsertReturn(insert(Tree, k, drain.n + 1), k, drain.n + 1)
    /\ drain' = [drain EXCEPT
                   !.pairs = Append(@, <<k, drain.n + 1>>),
                   !.n = @ + 1,
                   !.distinct = @ /\ (\A j \in 1..Len(drain.pairs) :
                                          drain.pairs[j][1] # k)]
    /\ UNCHANGED <<owned, probe, bloom>>

DrainRemove(k) ==
    /\ ~panicked
    /\ get(nodes, root, k) # None
    /\ RemoveReturn(remove(Tree, k), k)
    /\ drain' = [drain EXCEPT !.pairs = <<>>, !.i = @ + 1]
    /\ UNCHANGED <<owned, probe, bloom>>

NextDrain ==
    \/ \E k \in DrainKeys : FillInsert(k)
    \/ \E k \in DrainKeys : DrainRemove(k)

SpecDrain == Init /\ [][NextDrain]_vars

\* ------------------------------------------------- consuming iteration
\* The tree is built by insert and remove, then moved into an
\* AvlTreeOwnedIterator by into_iter; from then on only next() is called.
\* The tree variables keep the tree as it was when it was moved, so that the
\* borrowing iterator can be asked about an identical tree.
OwnedInsert(k, v) == ~owned.consumed /\ Insert(k, v)

OwnedRemove(k) == ~owned.consumed /\ Remove(k)

OwnedBegin(it) ==
    [consumed |-> TRUE, nodes |-> it.nodes, stack |-> it.stack,
     ret |-> <<>>, yielded |-> <<>>, calls |-> 0]

\* IntoIterator for AvlTree: into_iter(self).
IntoIter ==
    /\ ~panicked
    /\ ~owned.consumed
    /\ owned' = OwnedBegin(OwnedNew(nodes, root))
    /\ UNCHANGED <<treeVars, drain, probe, bloom>>

OwnedAfter(it) ==
    [it EXCEPT !.yielded = IF it.ret = <<>> THEN @ ELSE Append(@, it.ret),
               !.calls = @ + 1]

\* One call of next(); one call more than there are entries is made.
OwnedNextCall ==
    /\ owned.consumed
    /\ owned.calls <= size
    /\ owned' = OwnedAfter(OwnedNext(owned))
    /\ UNCHANGED <<treeVars, drain, probe, bloom>>

NextOwned ==
    \/ \E k \in Keys, v \in Vals : OwnedInsert(k, v)
    \/ \E k \in Keys : OwnedRemove(k)
    \/ IntoIter
    \/ OwnedNextCall

SpecOwned == Init /\ [][NextOwned]_vars

\* ------------------------------------------ get_mutable_node_reference
\* The function is handed a node of a heap of MaxProbe nodes in which the
\* node's parent pointer, the root and the child links of one node q are
\* anything at all: well-formed trees and broken ones alike.
MaxProbe == 2
ProbeAddr == 1..MaxProbe
ProbeLink == {Null} \cup ProbeAddr

ProbeHeap(a, pa, q, l, r) ==
    [x \in ProbeAddr |->
        [NewNode(x, 1) EXCEPT !.parent = IF x = a THEN pa ELSE Null,
                              !.left = IF x = q THEN l ELSE Null,
                              !.right = IF x = q THEN r ELSE Null]]

ProbeInputs ==
    {[t |-> [NewTree EXCEPT !.nodes = ProbeHeap(a, pa, q, l, r), !.root = rt],
      node |-> a, done |-> FALSE, slot |-> NoSlot,
      pre |-> NewTree, rot |-> "none"] :
        a \in ProbeAddr, pa \in ProbeLink, q \in ProbeAddr,
        l \in ProbeLink, r \in ProbeLink, rt \in ProbeLink}

InitProbe ==
    /\ InitTree
    /\ drain = NoDrain
    /\ owned = NoIter
    /\ probe \in ProbeInputs
    /\ bloom = NoBloom

\* self.get_mutable_node_reference(node); NoSlot stands for the panic.
Lookup ==
    /\ ~probe.done
    /\ probe' = [probe EXCEPT
                   !.done = TRUE,
                   !.slot = get_mutable_node_reference(probe.t, probe.node)]
    /\ UNCHANGED <<treeVars, drain, owned, bloom>>

NextProbe == Lookup

SpecProbe == InitProbe /\ [][NextProbe]_vars

\* ------------------------------------------------------------ rotations
\* A tree is built by insert and remove and then the four rotations are
\* applied, one after another, to any of its slots, empty ones included, so
\* that they meet every shape of subtree over the keys stored.
LabValue(k) == (k % MaxVal) + 1

\* The tree without what the last call left in it beside its fields.
LabTree(t) ==
    [t EXCEPT !.ret = None, !.log = <<>>, !.start = NoWalk, !.succ = Null,
              !.successor_parent = Null, !.direct = FALSE]

LabInsert(k) ==
    /\ ~probe.done
    /\ probe' = [probe EXCEPT !.t = LabTree(insert(probe.t, k, LabValue(k)))]
    /\ UNCHANGED <<treeVars, drain, owned, bloom>>

LabRemove(k) ==
    /\ ~probe.done
    /\ probe' = [probe EXCEPT !.t = LabTree(remove(probe.t, k))]
    /\ UNCHANGED <<treeVars, drain, owned, bloom>>

\* The slots of tree t: the root and both child slots of every node.
SlotsOf(t) ==
    {RootSlot} \cup {LeftSlot(a) : a \in Owned(t.nodes, t.root)}
               \cup {RightSlot(a) : a \in Owned(t.nodes, t.root)}

Rotations == {"rotate_left", "rotate_right", "big_rotate_left", "big_rotate_right"}

\* AVLTreeNode::rotate_left(slot) and the other three.
LabRotate(s, rot) ==
    /\ probe' = [t |-> ApplyRotation(probe.t, s, rot), pre |-> probe.t,
                 node |-> SlotGet(probe.t, s), slot |-> s, rot |-> rot,
                 done |-> TRUE]
    /\ UNCHANGED <<treeVars, drain, owned, bloom>>

NextRotate ==
    \/ \E k \in Keys : LabInsert(k)
    \/ \E k \in Keys : LabRemove(k)
    \/ \E s \in SlotsOf(probe.t), rot \in Rotations : LabRotate(s, rot)

SpecRotate == Init /\ [][NextRotate]_vars

\* --------------------------------------------------- draft and final tree
\* The same inserts go to the final AvlTree (the tree variables) and to the
\* draft AVLTree (probe.t), both new at the start; keys 1..MaxDraftKey.
\* Neither tree looks at a value: two of them are enough to tell a replaced
\* value from the one it replaces.
MaxDraftKey == 5
DraftKeys == 1..MaxDraftKey
DraftVals == {1, MaxVal}

BothInsert(k, v) ==
    /\ ~panicked
    /\ ~probe.t.panicked
    /\ InsertReturn(insert(Tree, k, v), k, v)
    /\ probe' = [probe EXCEPT !.t = AVLTree_insert(LabTree(probe.t), k, v)]
    /\ UNCHANGED <<drain, owned, bloom>>

NextDraft == \E k \in DraftKeys, v \in DraftVals : BothInsert(k, v)

SpecDraft == Init /\ [][NextDraft]_vars

\* ------------------------------------------------------- the Bloom filter
InitBloom ==
    /\ InitTree
    /\ drain = NoDrain
    /\ owned = NoIter
    /\ probe = NoProbe
    /\ bloom \in {[NoBloom EXCEPT !.hash = hf] : hf \in HashFunctions}

FilterInsert(x) ==
    /\ bloom' = [bloom EXCEPT !.bits = BloomInsert(@, bloom.hash, x, 0),
                              !.inserted = @ \cup {x},
                              !.op = "insert", !.item = x, !.ret = FALSE,
                              !.before = bloom.bits]
    /\ UNCHANGED <<treeVars, drain, owned, probe>>

FilterContains(x) ==
    /\ bloom' = [bloom EXCEPT
                   !.op = "contains", !.item = x,
                   !.ret = BloomContains(bloom.bits, bloom.hash, x, 0),
                   !.before = bloom.bits]
    /\ UNCHANGED <<treeVars, drain, owned, probe>>

FilterClear ==
    /\ bloom' = [bloom EXCEPT !.bits = BloomClear(@), !.inserted = {},
                              !.op = "clear", !.item = 0, !.ret = FALSE,
                              !.before = bloom.bits]
    /\ UNCHANGED <<treeVars, drain, owned, probe>>

NextBloom ==
    \/ \E x \in Items : FilterInsert(x)
    \/ \E x \in Items : FilterContains(x)
    \/ FilterClear

SpecBloom == InitBloom /\ [][NextBloom]_vars

\* ------------------------------------------------------------ properties
\* The nodes of the tree: those reachable from the root through left/right.
Reach == Owned(nodes, root)

\* The height of the subtree at a, counted on the tree itself.
RECURSIVE RealHeight(_, _)
RealHeight(h, a) ==
    IF a = Null THEN 0
    ELSE 1 + Max(RealHeight(h, h[a].left), RealHeight(h, h[a].right))

KeysOf(h, a) == {h[x].key : x \in Owned(h, a)}

\* Some rotation was made by the walk of the last call.
Rotated == \E i \in 1..Len(last.log) : last.log[i].rot # "none"

\* C1: after any sequence of insert and remove calls, every node of the tree
\* has |left_height - right_height| <= 1, on the cached heights and on the
\* heights of the subtrees themselves.
C1_Balanced ==
    \A a \in Reach :
        /\ Abs(left_height(nodes, a) - right_height(nodes, a)) <= 1
        /\ Abs(RealHeight(nodes, nodes[a].left)
               - RealHeight(nodes, nodes[a].right)) <= 1

\* A removal from a tree of height 4 whose walk rotated, leaving height 4.
C1_Witness ==
    /\ last.op = "remove" /\ last.found /\ Rotated
    /\ RealHeight(nodes, root) = 4

\* C2: for every node, all keys of its left subtree are strictly smaller than
\* its key and all keys of its right subtree strictly greater; no key is
\* stored in more than one node.
C2_BstOrder ==
    /\ \A a \in Reach :
          /\ \A k \in KeysOf(nodes, nodes[a].left) : k < nodes[a].key
          /\ \A k \in KeysOf(nodes, nodes[a].right) : k > nodes[a].key
    /\ \A a, b \in Reach : nodes[a].key = nodes[b].key => a = b

\* A two-children removal whose successor was not the direct right child.
C2_Witness ==
    /\ last.op = "remove" /\ last.succ # Null /\ ~last.direct
    /\ Cardinality(Reach) >= 6

\* C3: every node's cached height is 1 + max of its children's cached heights
\* (0 for an absent child), hence >= 1, 1 for a leaf, and the real height.
C3_HeightCorrect ==
    \A a \in Reach :
        /\ nodes[a].height = 1 + Max(left_height(nodes, a), right_height(nodes, a))
        /\ nodes[a].height >= 1
        /\ (nodes[a].left = Null /\ nodes[a].right = Null => nodes[a].height = 1)
        /\ nodes[a].height = RealHeight(nodes, a)

\* A double rotation has just been made in a tree of height 4.
C3_Witness ==
    /\ \E i \in 1..Len(last.log) :
          last.log[i].rot \in {"big_rotate_left", "big_rotate_right"}
    /\ nodes[root].height = 4

\* C4: every non-root node's parent pointer is the node that holds it as its
\* left or right child, and the root's parent pointer is null.
C4_ParentConsistent ==
    /\ root # Null => nodes[root].parent = Null
    /\ \A a \in Reach :
          /\ nodes[a].left # Null => nodes[nodes[a].left].parent = a
          /\ nodes[a].right # Null => nodes[nodes[a].right].parent = a
    /\ \A a \in Reach \ {root} :
          /\ nodes[a].parent \in Reach
          /\ \/ nodes[nodes[a].parent].left = a
             \/ nodes[nodes[a].parent].right = a

\* A successor splice: the successor was not the direct right child and its
\* own right child has been promoted to its former place.
C4_Witness ==
    /\ last.op = "remove" /\ last.succ # Null /\ ~last.direct
    /\ nodes[last.successor_parent].left # Null

\* C5: size() is the number of nodes reachable from the root and the number
\* of items iter() yields; a call changes it by +1 (insert of a new key), by
\* -1 (remove of a present key) or not at all, and it never goes below 0.
C5_SizeAccurate ==
    /\ size = Cardinality(Reach)
    /\ size = Len(iter(nodes, root))
    /\ size >= 0
    /\ last.op = "insert" => size = last.pre_size + (IF last.found THEN 0 ELSE 1)
    /\ last.op = "remove" => size = last.pre_size - (IF last.found THEN 1 ELSE 0)

\* A present key has been removed from a tree of at least 7 nodes.
C5_Witness ==
    /\ last.op = "remove" /\ last.found /\ last.pre_size >= 7
    /\ size = last.pre_size - 1

\* C6: insert, remove and get return what the reference map returns: insert
\* the previous value of the key or none, remove the removed value or none,
\* get(k) the value now associated with k or none; contains(k) follows get.
C6_Differential ==
    /\ last.op \in {"insert", "remove", "get"} => last.ret = last.refRet
    /\ \A k \in Keys :
          /\ get(nodes, root, k) = RefGet(ref, k)
          /\ contains(nodes, root, k) <=> k \in DOMAIN ref

\* A remove has returned the value a second insert of the key had stored.
C6_Witness ==
    /\ last.op = "remove" /\ last.ret = 2 /\ last.refRet = 2
    /\ size >= 2

\* C7: iter() yields the reference map's (key, value) pairs in strictly
\* ascending key order, keys() those keys and values() the corresponding
\* values, in that order, after every step; nothing on an empty tree.
C7_IterationOrder ==
    /\ iter(nodes, root) = RefItems(ref)
    /\ keys(nodes, root) = RefKeys(ref)
    /\ values(nodes, root) = RefValues(ref)
    /\ \A i, j \in 1..Len(keys(nodes, root)) :
          i < j => keys(nodes, root)[i] < keys(nodes, root)[j]
    /\ root = Null => iter(nodes, root) = <<>>
    /\ last.op = "iter" => last.items = RefItems(ref)
    /\ last.op = "keys" => last.items = RefKeys(ref)
    /\ last.op = "values" => last.items = RefValues(ref)

\* values() has yielded the values of a full tree, not all of them equal.
C7_Witness ==
    /\ last.op = "values" /\ Len(last.items) = MaxKey
    /\ \E i, j \in 1..Len(last.items) : last.items[i] # last.items[j]

\* C8: min() returns the entry with the smallest key stored and max() the
\* one with the largest; both return none exactly when the tree is empty.
C8_MinMax ==
    /\ min(nodes, root) = RefMin(ref)
    /\ max(nodes, root) = RefMax(ref)
    /\ min(nodes, root) = <<>> <=> DOMAIN ref = {}
    /\ max(nodes, root) = <<>> <=> DOMAIN ref = {}
    /\ last.op = "min" => last.entry = RefMin(ref)
    /\ last.op = "max" => last.entry = RefMax(ref)

\* max() has returned an entry of a tree whose root is not the largest key.
C8_Witness ==
    /\ last.op = "max" /\ last.entry # <<>>
    /\ size >= 3 /\ last.entry[1] # nodes[root].key

\* C9: insert(k, v2) on a tree that contains k returns the stored value, makes
\* get(k) return v2 and changes nothing else: size, every node's children,
\* parent and height and every other value stay, and no walk is run.
C9_DuplicateInsertFrame ==
    [][(last'.op = "insert" /\ get(nodes, root, last'.key) # None) =>
          /\ last'.ret = get(nodes, root, last'.key)
          /\ get(nodes', root', last'.key) = last'.value
          /\ size' = size
          /\ root' = root
          /\ DOMAIN nodes' = DOMAIN nodes
          /\ \A a \in DOMAIN nodes :
                nodes'[a] = IF nodes[a].key = last'.key
                            THEN [nodes[a] EXCEPT !.value = last'.value]
                            ELSE nodes[a]
          /\ last'.log = <<>>
          /\ ~panicked']_vars

\* A stored value has been replaced by a different one in a tree of 3 nodes.
C9_Witness ==
    /\ last.op = "insert" /\ last.found /\ last.ret # last.value
    /\ size >= 3

\* C10: remove(k) on a tree that does not contain k, the empty tree included,
\* returns none and leaves size, shape, heights, parent links and entries as
\* they were.
C10_AbsentRemoveFrame ==
    [][(last'.op = "remove" /\ get(nodes, root, last'.key) = None) =>
          /\ last'.ret = None
          /\ nodes' = nodes
          /\ root' = root
          /\ size' = size
          /\ last'.log = <<>>
          /\ ~panicked']_vars

\* A key that is not stored has been removed from a tree of 3 nodes.
C10_Witness ==
    /\ last.op = "remove" /\ ~last.found /\ last.ret = None
    /\ size >= 3


\* C11: a tree filled with N distinct keys and then drained of all of them,
\* in any order, has size N - i after the i-th removal, every remove returns
\* the value inserted for its key, and after the N-th removal the tree is
\* empty: is_empty() holds, size() is 0 and there is no root.
C11_FullDrain ==
    drain.distinct =>
        /\ tree_size(size) = drain.n - drain.i
        /\ drain.i > 0 =>
               /\ last.op = "remove"
               /\ last.ret # None
               /\ last.ret = last.refRet
        /\ drain.i = drain.n =>
               /\ is_empty(size)
               /\ tree_size(size) = 0
               /\ root = Null
               /\ DOMAIN nodes = {}

\* MaxFill distinct keys were inserted and every one of them removed again.
C11_Witness ==
    /\ drain.distinct
    /\ drain.n = MaxFill
    /\ drain.i = drain.n
    /\ last.op = "remove" /\ last.ret # None

\* The keys of the pairs inserted in the fill.
FilledKeys == {drain.pairs[j][1] : j \in 1..Len(drain.pairs)}

\* C12: three distinct keys inserted into an empty tree, in any of their six
\* orders, give a tree whose root holds the median, whose left child holds
\* the smallest and whose right child holds the largest key.
C12_ThreeKeys ==
    (drain.distinct /\ drain.i = 0 /\ Len(drain.pairs) = 3) =>
        /\ root # Null
        /\ nodes[root].left # Null
        /\ nodes[root].right # Null
        /\ \A k \in FilledKeys : nodes[nodes[root].left].key <= k
        /\ \A k \in FilledKeys : k <= nodes[nodes[root].right].key
        /\ nodes[root].key \in FilledKeys \ {nodes[nodes[root].left].key,
                                               nodes[nodes[root].right].key}
        /\ nodes[nodes[root].left].key < nodes[root].key
        /\ nodes[root].key < nodes[nodes[root].right].key
        /\ Reach = {root, nodes[root].left, nodes[root].right}

\* Three keys inserted largest, smallest, median: the order that needs the
\* double rotation to the right.
C12_Witness ==
    /\ drain.distinct /\ drain.i = 0 /\ Len(drain.pairs) = 3
    /\ drain.pairs[2][1] < drain.pairs[3][1]
    /\ drain.pairs[3][1] < drain.pairs[1][1]
    /\ \E i \in 1..Len(last.log) : last.log[i].rot = "big_rotate_right"
    /\ nodes[root].key = drain.pairs[3][1]


\* The node holding key k below n, Null when there is none.
RECURSIVE Find(_, _, _)
Find(h, n, k) ==
    IF n = Null THEN Null
    ELSE IF k < h[n].key THEN Find(h, h[n].left, k)
    ELSE IF k > h[n].key THEN Find(h, h[n].right, k)
    ELSE n

\* Node n of heap h0 has two children and its right child has no left child.
DirectCase(h0, n) ==
    /\ n # Null
    /\ h0[n].left # Null
    /\ h0[n].right # Null
    /\ h0[h0[n].right].left = Null

\* In the tree (h1, r1) the right child that n had in h0 is in the slot n
\* had, with the left subtree n had and with the right subtree it had itself.
RightChildInSlot(h0, n, h1, r1) ==
    /\ IF h0[n].parent = Null THEN r1 = h0[n].right
       ELSE IF h0[h0[n].parent].left = n
       THEN h1[h0[n].parent].left = h0[n].right
       ELSE h1[h0[n].parent].right = h0[n].right
    /\ h1[h0[n].right].left = h0[n].left
    /\ h1[h0[n].right].right = h0[h0[n].right].right

\* Some rotation is recorded in the walk log.
RotatedIn(log) == \E i \in 1..Len(log) : log[i].rot # "none"

\* The tree of the example: 5, 3, 7, 2, 4, 6, 8 inserted in this order.
ExamplePairs == <<<<5, 1>>, <<3, 1>>, <<7, 1>>, <<2, 1>>, <<4, 1>>, <<6, 1>>, <<8, 1>>>>

\* Removing 7 from the tree of the example leaves 8 as the right child of
\* the root 5, with 6 as the left child of 8.
ExampleStep ==
    (/\ last'.op = "remove" /\ last'.key = 7 /\ size = 7
     /\ root = from_iter(ExamplePairs).root
     /\ nodes = from_iter(ExamplePairs).nodes)
    => /\ root' # Null /\ nodes'[root'].key = 5
       /\ nodes'[root'].right # Null
       /\ nodes'[nodes'[root'].right].key = 8
       /\ nodes'[nodes'[root'].right].left # Null
       /\ nodes'[nodes'[nodes'[root'].right].left].key = 6

\* C13 as stated: removing a node with two children whose right child has no
\* left child leaves that right child in the removed node's slot of the
\* resulting tree, with the removed node's left subtree as its left child and
\* its own right subtree kept.
C13_AsStated ==
    [][/\ (last'.op = "remove"
           /\ DirectCase(nodes, Find(nodes, root, last'.key)))
          => RightChildInSlot(nodes, Find(nodes, root, last'.key), nodes', root')
       /\ ExampleStep]_vars

\* C13, amended: removing a node with two children whose right child has no
\* left child puts that right child into the removed node's slot, with the
\* removed node's left subtree as its left child and its own right subtree
\* kept, and there the rebalancing walk starts; the resulting tree still has
\* this shape when the walk rotates nothing.  Removing 7 from the tree built
\* from 5, 3, 7, 2, 4, 6, 8 leaves 8 as the right child of the root 5 and 6
\* as the left child of 8.
C13_DirectSuccessor ==
    [][/\ (last'.op = "remove"
           /\ DirectCase(nodes, Find(nodes, root, last'.key)))
          => /\ last'.direct
             /\ last'.start.from = nodes[Find(nodes, root, last'.key)].right
             /\ RightChildInSlot(nodes, Find(nodes, root, last'.key),
                                 last'.start.nodes, last'.start.root)
             /\ ~RotatedIn(last'.log) =>
                    RightChildInSlot(nodes, Find(nodes, root, last'.key),
                                     nodes', root')
       /\ ExampleStep]_vars

\* 7 has just been removed from the tree of the example: the walk started at
\* 8, which was the right child of 7 and had no left child, in the slot of 7.
C13_Witness ==
    /\ last.op = "remove" /\ last.key = 7 /\ last.direct /\ size = 6
    /\ last.start.from # Null
    /\ last.start.nodes[last.start.from].key = 8
    /\ last.start.root # Null
    /\ last.start.nodes[last.start.root].key = 5
    /\ last.start.nodes[last.start.root].right = last.start.from
    /\ last.start.nodes[last.start.from].left # Null
    /\ last.start.nodes[last.start.nodes[last.start.from].left].key = 6
    /\ KeysOf(nodes, root) = {2, 3, 4, 5, 6, 8}
    /\ nodes[nodes[root].right].key = 8


\* The smaller of two numbers.
Least(a, b) == IF a <= b THEN a ELSE b

\* C14: consuming iteration over a tree yields the same sequence of (key,
\* value) pairs that iter() yields on an identical tree: after k calls of
\* next() exactly the k smallest entries have been yielded, in ascending key
\* order, each call returning the next one, and once every entry has been
\* yielded next() returns none.
C14_ConsumingIteration ==
    owned.consumed =>
        /\ Len(owned.yielded) = Least(owned.calls, tree_size(size))
        /\ owned.yielded = SubSeq(iter(nodes, root), 1, Len(owned.yielded))
        /\ owned.yielded = SubSeq(RefItems(ref), 1, Len(owned.yielded))
        /\ (owned.calls > 0 /\ owned.calls <= tree_size(size)) =>
               owned.ret = iter(nodes, root)[owned.calls]
        /\ owned.calls > tree_size(size) =>
               owned.ret = <<>> /\ owned.stack = <<>> /\ DOMAIN owned.nodes = {}

\* A tree of MaxKey entries, one of its nodes with two children, has been
\* consumed to the end and next() has returned none.
C14_Witness ==
    /\ owned.consumed
    /\ size = MaxKey
    /\ owned.calls = size + 1
    /\ owned.ret = <<>>
    /\ Len(owned.yielded) = MaxKey
    /\ \E a \in Reach : nodes[a].left # Null /\ nodes[a].right # Null
                         /\ nodes[nodes[a].right].left # Null


\* The last value the pairs give for key k, None when they give none.
RECURSIVE LastValue(_, _)
LastValue(pairs, k) ==
    IF pairs = <<>> THEN None
    ELSE IF pairs[Len(pairs)][1] = k THEN pairs[Len(pairs)][2]
    ELSE LastValue(SubSeq(pairs, 1, Len(pairs) - 1), k)

\* C15: the tree from_iter builds from a sequence of pairs is exactly the
\* tree that insert calls for the pairs, in order, produce; a key that occurs
\* several times is stored with the value of its last occurrence, and size()
\* is the number of distinct keys of the sequence.
C15_FromIter ==
    drain.i = 0 =>
        /\ from_iter(drain.pairs).nodes = nodes
        /\ from_iter(drain.pairs).root = root
        /\ from_iter(drain.pairs).size = size
        /\ \A k \in DrainKeys :
               get(from_iter(drain.pairs).nodes, from_iter(drain.pairs).root, k)
                   = LastValue(drain.pairs, k)
        /\ tree_size(from_iter(drain.pairs).size) = Cardinality(FilledKeys)

\* MaxFill pairs with a repeated key, the tree built with a rotation.
C15_Witness ==
    /\ drain.i = 0
    /\ Len(drain.pairs) = MaxFill
    /\ ~drain.distinct
    /\ Cardinality(FilledKeys) >= 3
    /\ from_iter(drain.pairs).size = Cardinality(FilledKeys)
    /\ \E k \in FilledKeys :
           /\ drain.pairs[1][1] = k
           /\ get(from_iter(drain.pairs).nodes, from_iter(drain.pairs).root, k)
                  # drain.pairs[1][2]

\* C16: get_mutable_node_reference panics with "broken tree" when the node it
\* is given has a null parent pointer and is not the root of the tree, and
\* when the node's parent holds it neither as left nor as right child.
C16_BrokenTree ==
    probe.done =>
        /\ (/\ probe.t.nodes[probe.node].parent = Null
            /\ probe.t.root # probe.node)
           => probe.slot = NoSlot
        /\ (/\ probe.t.nodes[probe.node].parent # Null
            /\ probe.t.nodes[probe.t.nodes[probe.node].parent].left # probe.node
            /\ probe.t.nodes[probe.t.nodes[probe.node].parent].right # probe.node)
           => probe.slot = NoSlot

\* The lookup was made for a node whose parent pointer is the root, which
\* does not hold it as a child, and it panicked.
C16_Witness ==
    /\ probe.done
    /\ probe.slot = NoSlot
    /\ probe.t.nodes[probe.node].parent # Null
    /\ probe.t.nodes[probe.node].parent # probe.node
    /\ probe.t.nodes[probe.t.nodes[probe.node].parent].left # probe.node
    /\ probe.t.nodes[probe.t.nodes[probe.node].parent].right # probe.node
    /\ probe.t.root = probe.t.nodes[probe.node].parent


\* C17: the filter has no false negatives: contains(x) is true for every
\* item x inserted since the filter was new or last cleared, however many
\* other items were inserted afterwards.
C17_NoFalseNegative ==
    /\ \A x \in bloom.inserted : BloomContains(bloom.bits, bloom.hash, x, 0)
    /\ (bloom.op = "contains" /\ bloom.item \in bloom.inserted) => bloom.ret

\* contains was asked for one of MaxItem inserted items whose two hashes set
\* different bits, one of them through the wrap of the modulus.
C17_Witness ==
    /\ bloom.op = "contains"
    /\ bloom.item \in bloom.inserted
    /\ bloom.ret
    /\ bloom.inserted = Items
    /\ Cardinality(bloom.bits) >= 3
    /\ bloom.hash[<<bloom.item, 0>>] >= BitCount
    /\ BitOf(bloom.hash[<<bloom.item, 0>>]) # BitOf(bloom.hash[<<bloom.item, 1>>])

\* C18: after clear() the filter is in the state of a newly constructed one,
\* every bit zero, and contains(x) is false for every x asked about right
\* after it.
C18_ClearResets ==
    /\ bloom.op = "clear" =>
           /\ bloom.bits = BloomNew
           /\ bloom.bits = {}
           /\ \A x \in Items : ~BloomContains(bloom.bits, bloom.hash, x, 0)
    /\ (bloom.op = "contains" /\ bloom.before = BloomNew) => ~bloom.ret

\* clear was called on a filter that held every item, the lowest bit set.
C18_Witness ==
    /\ bloom.op = "clear"
    /\ 0 \in bloom.before
    /\ Cardinality(bloom.before) >= 3
    /\ \A x \in Items : BloomContains(bloom.before, bloom.hash, x, 0)


\* Fibonacci numbers: 0, 1, 1, 2, 3, 5, 8, 13, ...
RECURSIVE Fib(_)
Fib(n) == IF n <= 1 THEN n ELSE Fib(n - 1) + Fib(n - 2)

\* The number of nodes from a up to the root, along the parent pointers.
RECURSIVE Depth(_, _)
Depth(h, a) == IF a = Null THEN 0 ELSE 1 + Depth(h, h[a].parent)

\* The number of nodes the descent of get compares k with, from n down.
RECURSIVE GetVisited(_, _, _)
GetVisited(h, n, k) ==
    IF n = Null THEN 0
    ELSE IF k < h[n].key THEN 1 + GetVisited(h, h[n].left, k)
    ELSE IF k > h[n].key THEN 1 + GetVisited(h, h[n].right, k)
    ELSE 1

\* The number of nodes the descent of insert visits: the depth of the last
\* node it visited.
InsertVisited(k) == Depth(nodes, InsertDescent(Tree, RootSlot, Null, k).parent)

\* The number of nodes the descent of remove visits: the depth of the node
\* found, or of the owner of the empty slot it ended at.
RemoveVisited(k) ==
    IF SlotGet(Tree, RemoveDescent(Tree, RootSlot, "Root", k).slot) # Null
    THEN Depth(nodes, SlotGet(Tree, RemoveDescent(Tree, RootSlot, "Root", k).slot))
    ELSE Depth(nodes, RemoveDescent(Tree, RootSlot, "Root", k).slot.owner)

\* The cached height of the root, 0 for the empty tree.
RootHeight == IF root = Null THEN 0 ELSE nodes[root].height

\* C19: every subtree whose root has cached height h holds at least
\* Fib(h + 2) - 1 nodes (1, 2, 4, 7, 12, ...), and the descent of get, of
\* insert and of remove visits at most as many nodes as the height of the
\* root.
C19_Logarithmic ==
    /\ \A a \in Reach :
           Cardinality(Owned(nodes, a)) >= Fib(nodes[a].height + 2) - 1
    /\ \A k \in ShapeKeys :
           /\ GetVisited(nodes, root, k) <= RootHeight
           /\ InsertVisited(k) <= RootHeight
           /\ RemoveVisited(k) <= RootHeight

\* A tree of height 4 with the 7 nodes the bound allows at least, and a key
\* whose descent visits 4 nodes.
C19_Witness ==
    /\ RootHeight = 4
    /\ Cardinality(Reach) = Fib(RootHeight + 2) - 1
    /\ \E k \in ShapeKeys :
           /\ GetVisited(nodes, root, k) = RootHeight
           /\ RemoveVisited(k) = RootHeight
    /\ \E k \in ShapeKeys : InsertVisited(k) = RootHeight /\ get(nodes, root, k) = None


\* The walk of the last call made exactly one rotation.
OneRotation == Cardinality({i \in 1..Len(last.log) : last.log[i].rot # "none"}) = 1

\* In heap h the node down has become the left child of the node up.
LeftChildOf(h, down, up) == up # Null /\ h[down].parent = up /\ h[up].left = down

\* In heap h the node down has become the right child of the node up.
RightChildOf(h, down, up) == up # Null /\ h[down].parent = up /\ h[up].right = down

\* What the rotation recorded in e has made of the node, of its taller child
\* and, for a double rotation, of that child's inner child, in heap h.
RotationEffect(h, e) ==
    /\ e.rot = "rotate_left" => LeftChildOf(h, e.node, e.right)
    /\ e.rot = "big_rotate_left" =>
           LeftChildOf(h, e.node, e.rl) /\ RightChildOf(h, e.right, e.rl)
    /\ e.rot = "rotate_right" => RightChildOf(h, e.node, e.left)
    /\ e.rot = "big_rotate_right" =>
           RightChildOf(h, e.node, e.lr) /\ LeftChildOf(h, e.left, e.lr)

\* The rotation table, for one record of the walk log.
RotationTable(e) ==
    /\ (e.bf = -2 /\ (e.rbf = 0 \/ e.rbf = -1)) => e.rot = "rotate_left"
    /\ (e.bf = -2 /\ e.rbf = 1) => e.rot = "big_rotate_left"
    /\ (e.bf = 2 /\ (e.lbf = 0 \/ e.lbf = 1)) => e.rot = "rotate_right"
    /\ (e.bf = 2 /\ e.lbf = -1) => e.rot = "big_rotate_right"
    /\ (e.bf > -2 /\ e.bf < 2) => e.rot = "none"

\* C20: a node whose balance factor the walk finds to be -2 is rotated left
\* when its right child has balance factor 0 or -1 and gets the right-then-
\* left double rotation (the right child rotated right, then the node left)
\* when it is +1; a node found at +2 is rotated right when its left child
\* has 0 or +1 and gets the left-then-right double rotation when it is -1.
\* The taller child's balance factor alone decides, and the rotation makes
\* the taller child (single) or its inner child (double) the parent.
C20_RotationTable ==
    \A i \in 1..Len(last.log) :
        /\ RotationTable(last.log[i])
        /\ OneRotation => RotationEffect(nodes, last.log[i])

\* A removal left a node at -2 whose right child was balanced, and the node
\* was rotated left.
C20_Witness ==
    /\ last.op = "remove"
    /\ OneRotation
    /\ \E i \in 1..Len(last.log) :
           /\ last.log[i].bf = -2 /\ last.log[i].rbf = 0
           /\ last.log[i].rot = "rotate_left"
           /\ last.log[i].rl # Null
           /\ nodes[last.log[i].node].right = last.log[i].rl


\* Node x of heap h has a balance factor within tolerance and a cached
\* height that is one more than the larger of its children's heights.
Settled(h, x) ==
    /\ balance_factor(h, x) \in {-1, 0, 1}
    /\ h[x].height = 1 + Max(left_height(h, x), right_height(h, x))
    /\ h[x].height = RealHeight(h, x)

\* The subtree the rotation recorded in e left in the slot: its root has two
\* children, and the three of them are settled.
RotatedSubtreeSettled(e) ==
    /\ e.top # Null
    /\ e.post[e.top].left # Null
    /\ e.post[e.top].right # Null
    /\ Settled(e.post, e.top)
    /\ Settled(e.post, e.post[e.top].left)
    /\ Settled(e.post, e.post[e.top].right)

\* C21: whenever the rebalancing walk of an insert or of a remove rotates at
\* a node with balance factor +2 or -2, then right after the rotation the
\* rotated-in root and its two children have balance factors in {-1, 0, +1}
\* and cached heights equal to 1 + the larger of their children's heights.
C21_RotationRestores ==
    \A i \in 1..Len(last.log) :
        (last.log[i].bf = 2 \/ last.log[i].bf = -2) =>
            /\ last.log[i].rot \in Rotations
            /\ RotatedSubtreeSettled(last.log[i])

\* A removal made the walk do a double rotation.
C21_Witness ==
    /\ last.op = "remove"
    /\ \E i \in 1..Len(last.log) :
           /\ last.log[i].rot = "big_rotate_left"
           /\ last.log[i].top = last.log[i].rl
           /\ RotatedSubtreeSettled(last.log[i])


\* The (key, value) pairs of the subtree at a, in order.
RECURSIVE InOrder(_, _)
InOrder(h, a) ==
    IF a = Null THEN <<>>
    ELSE InOrder(h, h[a].left) \o <<<<h[a].key, h[a].value>>>> \o InOrder(h, h[a].right)

\* C22: each of rotate_left, rotate_right, big_rotate_left and
\* big_rotate_right, applied to any slot, leaves the in-order sequence of
\* (key, value) pairs of the subtree in that slot unchanged and neither adds
\* nor drops a node.
C22_RotationKeepsOrder ==
    probe.done =>
        /\ InOrder(probe.t.nodes, SlotGet(probe.t, probe.slot))
               = InOrder(probe.pre.nodes, probe.node)
        /\ Owned(probe.t.nodes, SlotGet(probe.t, probe.slot))
               = Owned(probe.pre.nodes, probe.node)
        /\ InOrder(probe.t.nodes, probe.t.root)
               = InOrder(probe.pre.nodes, probe.pre.root)
        /\ DOMAIN probe.t.nodes = DOMAIN probe.pre.nodes
        /\ probe.t.size = probe.pre.size

\* A double rotation to the left changed a subtree whose right child had a
\* left child, below the root of a tree of MaxKey nodes.
C22_Witness ==
    /\ probe.done
    /\ probe.rot = "big_rotate_left"
    /\ probe.node # Null
    /\ probe.slot # RootSlot
    /\ probe.pre.size = MaxKey
    /\ probe.pre.nodes[probe.node].right # Null
    /\ probe.pre.nodes[probe.pre.nodes[probe.node].right].left # Null
    /\ SlotGet(probe.t, probe.slot)
           = probe.pre.nodes[probe.pre.nodes[probe.node].right].left


\* The cached height of the subtree at c, 0 when there is none.
CachedHeight(h, c) == IF c = Null THEN 0 ELSE h[c].height

\* Heap h1 is heap h0 after a left rotation in slot s of the subtree root R
\* with right child P: P's left child has become R's right child, its parent
\* link R; R is P's left child, its parent link P; P has the parent link R
\* had; R's height is recomputed from its children and P's from R's new one.
LeftRotated(h0, h1, R, P) ==
    /\ h1[R].right = h0[P].left
    /\ h0[P].left # Null => h1[h0[P].left].parent = R
    /\ h1[P].left = R
    /\ h1[R].parent = P
    /\ h1[P].parent = h0[R].parent
    /\ h1[R].left = h0[R].left
    /\ h1[P].right = h0[P].right
    /\ h1[R].height = 1 + Max(CachedHeight(h0, h0[R].left),
                              CachedHeight(h0, h0[P].left))
    /\ h1[P].height = 1 + Max(h1[R].height, CachedHeight(h0, h0[P].right))
    /\ h1[R].key = h0[R].key /\ h1[R].value = h0[R].value
    /\ h1[P].key = h0[P].key /\ h1[P].value = h0[P].value

\* The mirror image: a right rotation of the subtree root R with left child P.
RightRotated(h0, h1, R, P) ==
    /\ h1[R].left = h0[P].right
    /\ h0[P].right # Null => h1[h0[P].right].parent = R
    /\ h1[P].right = R
    /\ h1[R].parent = P
    /\ h1[P].parent = h0[R].parent
    /\ h1[R].right = h0[R].right
    /\ h1[P].left = h0[P].left
    /\ h1[R].height = 1 + Max(CachedHeight(h0, h0[R].right),
                              CachedHeight(h0, h0[P].right))
    /\ h1[P].height = 1 + Max(h1[R].height, CachedHeight(h0, h0[P].left))
    /\ h1[R].key = h0[R].key /\ h1[R].value = h0[R].value
    /\ h1[P].key = h0[P].key /\ h1[P].value = h0[P].value

\* C23: a single left rotation on a subtree root R with right child P makes
\* P's former left child R's right child with its parent link set to R, makes
\* R the left child of P with R's parent link set to P, gives P the parent
\* link and the slot R had, and recomputes R's height before P's; a single
\* right rotation is the mirror image.
C23_SingleRotation ==
    /\ (/\ probe.done /\ probe.rot = "rotate_left" /\ probe.node # Null
        /\ probe.pre.nodes[probe.node].right # Null)
       => /\ SlotGet(probe.t, probe.slot) = probe.pre.nodes[probe.node].right
          /\ LeftRotated(probe.pre.nodes, probe.t.nodes, probe.node,
                         probe.pre.nodes[probe.node].right)
    /\ (/\ probe.done /\ probe.rot = "rotate_right" /\ probe.node # Null
        /\ probe.pre.nodes[probe.node].left # Null)
       => /\ SlotGet(probe.t, probe.slot) = probe.pre.nodes[probe.node].left
          /\ RightRotated(probe.pre.nodes, probe.t.nodes, probe.node,
                          probe.pre.nodes[probe.node].left)

\* A left rotation below the root moved an inner subtree from P to R and
\* made R lower than it was.
C23_Witness ==
    /\ probe.done /\ probe.rot = "rotate_left" /\ probe.node # Null
    /\ probe.slot # RootSlot
    /\ probe.pre.nodes[probe.node].right # Null
    /\ probe.pre.nodes[probe.pre.nodes[probe.node].right].left # Null
    /\ probe.t.nodes[probe.node].right
           = probe.pre.nodes[probe.pre.nodes[probe.node].right].left
    /\ probe.t.nodes[probe.node].height < probe.pre.nodes[probe.node].height


\* C24: rotate_left on an empty slot or on a subtree whose root has no right
\* child, and rotate_right on an empty slot or on a subtree whose root has no
\* left child, leave the slot and the whole tree (children, parent links,
\* heights) as they were.
C24_RotationNoOp ==
    /\ (/\ probe.done /\ probe.rot = "rotate_left"
        /\ (probe.node = Null \/ probe.pre.nodes[probe.node].right = Null))
       => /\ probe.t = probe.pre
          /\ SlotGet(probe.t, probe.slot) = probe.node
    /\ (/\ probe.done /\ probe.rot = "rotate_right"
        /\ (probe.node = Null \/ probe.pre.nodes[probe.node].left = Null))
       => /\ probe.t = probe.pre
          /\ SlotGet(probe.t, probe.slot) = probe.node

\* rotate_right was applied below the root to a subtree whose root has a
\* right child and no left child.
C24_Witness ==
    /\ probe.done /\ probe.rot = "rotate_right"
    /\ probe.node # Null
    /\ probe.slot # RootSlot
    /\ probe.pre.nodes[probe.node].left = Null
    /\ probe.pre.nodes[probe.node].right # Null
    /\ probe.t = probe.pre


\* The node a and the nodes above it, along the parent pointers of heap h.
RECURSIVE Ancestors(_, _)
Ancestors(h, a) == IF a = Null THEN {} ELSE {a} \cup Ancestors(h, h[a].parent)

\* The nodes the walk of the last call visited.
LogNodes == {last.log[i].node : i \in 1..Len(last.log)}

\* The walk of the last call went from the node it started at to the node
\* with no parent, every step taking the parent pointer of the node just
\* visited, and that last node is the root of the tree.
WalkReachesRoot ==
    /\ last.log # <<>>
    /\ last.log[1].node = last.start.from
    /\ \A i \in 1..(Len(last.log) - 1) :
           last.log[i].up # Null /\ last.log[i + 1].node = last.log[i].up
    /\ last.log[Len(last.log)].up = Null
    /\ last.log[Len(last.log)].node = root
    /\ Ancestors(last.start.nodes, last.start.from) \subseteq LogNodes
    /\ Ancestors(nodes, last.start.from) \subseteq LogNodes
    /\ \A x \in LogNodes : Settled(nodes, x)

\* C25: after the removal of a present key the rebalancing walk recomputes
\* the height and checks the balance of every node from the node it starts at
\* up to and including the root; it does not stop at a node because that
\* node's balance factor is 0, and it ends once it has processed the node
\* that has no parent.
C25_RemoveWalkToRoot ==
    (last.op = "remove" /\ last.found) =>
        IF last.start.from = Null THEN last.log = <<>>
        ELSE /\ WalkReachesRoot
             /\ \A i \in 1..Len(last.log) :
                    (last.log[i].bf = 0 /\ last.log[i].up # Null)
                        => i < Len(last.log)

\* A removal whose walk found balance factor 0 at the node it started at,
\* two levels below the root, and went on to the root.
C25_Witness ==
    /\ last.op = "remove" /\ last.found
    /\ Len(last.log) >= 3
    /\ last.log[1].bf = 0
    /\ last.log[1].rot = "none"
    /\ last.log[Len(last.log)].node = root


\* C26 as stated: the walk started by insert stops as soon as a node it
\* visits has the recomputed balance factor 0, whereas the walk started by
\* remove does not stop there and goes on to the root.
C26_AsStated ==
    /\ (last.op = "insert" /\ ~last.found) =>
           \A i \in 1..Len(last.log) :
               last.log[i].bf = 0 => i = Len(last.log)
    /\ (last.op = "remove" /\ last.found /\ last.start.from # Null) =>
           /\ last.log[Len(last.log)].node = root
           /\ last.log[Len(last.log)].up = Null



\* The positions of the last walk's log at which a rotation was called.
RotationSteps ==
    {i \in 1..Len(last.log) :
        last.log[i].rot \notin {"none", "panic"} /\ last.log[i].top # Null}

\* The nodes the last walk visited after position i of its log.
LogNodesAfter(i) == {last.log[j].node : j \in (i + 1)..Len(last.log)}

\* C27 as stated: after a rotation the next node the walk processes is the
\* parent of the node the rotation moved to the top of the subtree, and the
\* walk ends at the rotation when that node is the root of the tree; every
\* ancestor of the rotated subtree is processed afterwards.
C27_AsStated ==
    \A i \in RotationSteps :
        LET top == last.log[i].top
            above == last.log[i].post[top].parent
        IN /\ IF above = Null THEN i = Len(last.log)
              ELSE i < Len(last.log) /\ last.log[i + 1].node = above
           /\ Ancestors(last.log[i].post, above) \subseteq LogNodesAfter(i)

\* C27: after a rotation at a visited node the walk steps along the parent
\* pointer of that node, which the rotation has set to the node it moved to
\* the top of the subtree; so the next node processed is that top node
\* itself (no second rotation there), then the top node's parent, and the
\* walk ends after processing the top node when it is the root of the tree;
\* the top node and every ancestor of the rotated subtree are processed.
C27_WalkAfterRotation ==
    \A i \in RotationSteps :
        LET top == last.log[i].top
            above == last.log[i].post[top].parent
        IN /\ last.log[i].up = top
           /\ top # last.log[i].node
           /\ i < Len(last.log)
           /\ last.log[i + 1].node = top
           /\ last.log[i + 1].rot = "none"
           /\ last.log[i + 1].up = above
           /\ IF above = Null
              THEN i + 1 = Len(last.log) /\ root = top
              ELSE i + 2 <= Len(last.log) /\ last.log[i + 2].node = above
           /\ Ancestors(last.log[i].post, top) \subseteq LogNodesAfter(i)

\* A walk that rotated below the root: it went on to the node the rotation
\* moved up and then to that node's parent.
C27_Witness ==
    \E i \in RotationSteps :
        /\ i + 2 <= Len(last.log)
        /\ last.log[i].post[last.log[i].top].parent # Null
        /\ last.log[i + 1].node = last.log[i].top
        /\ last.log[i + 2].node = last.log[i].post[last.log[i].top].parent



\* Where the search for key k, going left at larger keys and right at
\* smaller ones, leaves the tree of heap h: the last node visited (owner) and
\* the side of it the search would go on to; n is the node the search is at.
RECURSIVE DescentEnd(_, _, _, _, _)
DescentEnd(h, n, owner, side, k) ==
    IF n = Null THEN [owner |-> owner, side |-> side]
    ELSE IF k < h[n].key THEN DescentEnd(h, h[n].left, n, "left", k)
    ELSE DescentEnd(h, h[n].right, n, "right", k)

\* Heap h with the child pointer of node p on the given side set to c.
WithChild(h, p, side, c) ==
    IF side = "left" THEN [h EXCEPT ![p].left = c]
    ELSE [h EXCEPT ![p].right = c]

\* The heap h and root r after node a, a leaf of height 1 holding (k, v), is
\* attached at the end e of a descent.
Attached(h, e, a, k, v) ==
    LET leaf == [key |-> k, value |-> v, left |-> Null, right |-> Null,
                 parent |-> e.owner, height |-> 1]
    IN IF e.owner = Null THEN (a :> leaf)
       ELSE (a :> leaf) @@ WithChild(h, e.owner, e.side, a)

\* The step is an insert of the absent key k that did as C28 says.
InsertedNewKey(k, v) ==
    LET e == DescentEnd(nodes, root, Null, "root", k)
        fresh == DOMAIN nodes' \ DOMAIN nodes
    IN /\ last'.ret = None
       /\ size' = size + 1
       /\ Cardinality(fresh) = 1
       /\ \A a \in fresh :
              IF e.owner = Null
              THEN /\ root = Null
                   /\ last'.start = NoWalk
                   /\ last'.log = <<>>
                   /\ root' = a
                   /\ nodes' = Attached(nodes, e, a, k, v)
              ELSE /\ last'.start.from = e.owner
                   /\ last'.start.root = root
                   /\ last'.start.nodes = Attached(nodes, e, a, k, v)
                   /\ last'.log # <<>>
                   /\ last'.log[1].node = e.owner
                   /\ nodes'[a].key = k /\ nodes'[a].value = v

\* C28: insert(k, v) of a key that is not stored returns None, attaches a new
\* leaf of height 1 holding (k, v) in the empty slot where the descent for k
\* ended, the leaf's parent pointer being the last node the descent visited,
\* adds 1 to size and starts the rebalancing walk at that parent, on the tree
\* with the leaf attached and nothing else changed; into an empty tree the
\* new node becomes the root, with a null parent pointer, and no walk runs.
C28_InsertNewKey ==
    [][(last'.op = "insert" /\ ~last'.found /\ ~panicked')
           => InsertedNewKey(last'.key, last'.value)]_vars

\* An insert of a new key two levels below the root: the leaf hangs under
\* the node the walk started at and the walk went on to the root.
C28_Witness ==
    /\ last.op = "insert" /\ ~last.found /\ last.ret = None
    /\ last.start.from # Null
    /\ last.key \in DOMAIN last.start.nodes
    /\ last.start.nodes[last.key].parent = last.start.from
    /\ last.start.nodes[last.key].value = last.value
    /\ last.start.from # last.start.root
    /\ size = last.pre_size + 1



\* The side of node p of heap h on which node n hangs.
SideOf(h, p, n) == IF h[p].left = n THEN "left" ELSE "right"

\* No node of heap h has n as a child.
Unlinked(h, n) == \A x \in DOMAIN h : h[x].left # n /\ h[x].right # n

\* Heap h1 is heap h0 with the child pointer of p on the side where n hung
\* set to c, the nodes other than p and those of the set `but` being as they
\* were.
SlotRefilled(h0, h1, p, n, c, but) ==
    /\ DOMAIN h1 = DOMAIN h0
    /\ \A x \in DOMAIN h0 \ but :
           h1[x] = IF x = p THEN WithChild(h0, p, SideOf(h0, p, n), c)[p]
                   ELSE h0[x]

\* The step is a removal of the key of leaf n that did as C29 says.
RemovedLeaf(n) ==
    LET p == nodes[n].parent IN
    /\ last'.ret = nodes[n].value
    /\ n \notin DOMAIN nodes'
    /\ Unlinked(nodes', n)
    /\ IF p = Null
       THEN /\ root = n
            /\ root' = Null
            /\ DOMAIN nodes' = {}
            /\ last'.start = NoWalk
            /\ last'.log = <<>>
       ELSE /\ last'.start.from = p
            /\ last'.start.root = root
            /\ SlotRefilled(nodes, last'.start.nodes, p, n, Null, {})
            /\ last'.log # <<>>
            /\ last'.log[1].node = p

\* C29: removing a node that has no children empties the slot that held it,
\* in its parent or at the root, and returns its value; the rebalancing walk
\* starts at its former parent, on the tree with just that slot emptied; when
\* the leaf was the root the tree is empty afterwards and no walk runs.
C29_RemoveLeaf ==
    [][(last'.op = "remove" /\ last'.found /\ ~panicked')
           => LET n == Find(nodes, root, last'.key) IN
              (nodes[n].left = Null /\ nodes[n].right = Null)
                  => RemovedLeaf(n)]_vars

\* A leaf two levels below the root was removed: the walk started at its
\* parent, whose slot for the key is empty, and went on above it.
C29_Witness ==
    /\ last.op = "remove" /\ last.found
    /\ last.start.from # Null
    /\ DescentEnd(last.start.nodes, last.start.root, Null, "root", last.key).owner
           = last.start.from
    /\ last.start.from # last.start.root
    /\ Len(last.log) >= 2
    /\ last.ret # None



\* The only child of node n of heap h.
OnlyChild(h, n) == IF h[n].left # Null THEN h[n].left ELSE h[n].right

\* The step is a removal of the key of node n, which has the one child c,
\* that did as C30 says.
RemovedOneChild(n, c) ==
    LET p == nodes[n].parent IN
    /\ n \notin DOMAIN nodes'
    /\ Unlinked(nodes', n)
    /\ IF p = Null
       THEN /\ root = n
            /\ root' = c
            /\ last'.start = NoWalk
            /\ last'.log = <<>>
            /\ DOMAIN nodes' = DOMAIN nodes \ {n}
            /\ \A x \in DOMAIN nodes' :
                   nodes'[x] = IF x = c THEN [nodes[c] EXCEPT !.parent = Null]
                               ELSE nodes[x]
       ELSE /\ last'.start.from = p
            /\ last'.start.root = root
            /\ SlotRefilled(nodes, last'.start.nodes, p, n, c, {n, c})
            /\ last'.start.nodes[c] = [nodes[c] EXCEPT !.parent = p]
            /\ last'.log # <<>>
            /\ last'.log[1].node = p

\* C30: removing a node that has exactly one child puts the child into the
\* slot of the removed node's parent that the removed node was in and sets
\* the child's parent pointer to that parent; the rebalancing walk starts at
\* that parent, on the tree with nothing else changed; when the removed node
\* was the root the child becomes the root, with a null parent pointer, and
\* no walk runs.
C30_RemoveOneChild ==
    [][(last'.op = "remove" /\ last'.found /\ ~panicked')
           => LET n == Find(nodes, root, last'.key) IN
              ((nodes[n].left = Null) # (nodes[n].right = Null))
                  => RemovedOneChild(n, OnlyChild(nodes, n))]_vars

\* A node below the root with one child was removed: the walk started at
\* its parent, which has the child in the slot on the side of the key.
C30_Witness ==
    /\ last.op = "remove" /\ last.found
    /\ last.start.from # Null
    /\ LET p == last.start.from
           c == IF last.key < last.start.nodes[p].key
                THEN last.start.nodes[p].left ELSE last.start.nodes[p].right
       IN /\ c # Null
          /\ last.start.nodes[c].parent = p
          /\ \E n \in DOMAIN last.start.nodes :
                 /\ last.start.nodes[n].key = last.key
                 /\ last.start.nodes[n].parent = p



\* The node reached from a by left child pointers only.
RECURSIVE LeftmostBelow(_, _)
LeftmostBelow(h, a) == IF h[a].left = Null THEN a ELSE LeftmostBelow(h, h[a].left)

\* Node s holds the smallest of the keys of the tree (h, r) greater than k.
HoldsNextKey(h, r, s, k) ==
    /\ h[s].key > k
    /\ \A j \in KeysOf(h, r) : j > k => h[s].key <= j

\* Node n of heap h has two children.
TwoChildren(h, n) == n # Null /\ h[n].left # Null /\ h[n].right # Null

\* In the tree (h1, r1) node s is where node n was in the tree (h0, r0): on
\* the same side of the same parent, or at the root, with n's parent pointer.
InSlotOf(h0, r0, n, h1, r1, s) ==
    LET p == h0[n].parent IN
    /\ h1[s].parent = p
    /\ IF p = Null THEN r0 = n /\ r1 = s
       ELSE /\ r1 = r0
            /\ IF h0[p].left = n THEN h1[p].left = s /\ h1[p].right = h0[p].right
               ELSE h1[p].right = s /\ h1[p].left = h0[p].left

\* The step removed node n, which has two children, as C31 says.
SuccessorInstalled(n) ==
    LET s == LeftmostBelow(nodes, nodes[n].right)
        H == last'.start.nodes
    IN /\ last'.succ = s
       /\ nodes[s].left = Null
       /\ HoldsNextKey(nodes, root, s, nodes[n].key)
       /\ last'.start.from # Null
       /\ InSlotOf(nodes, root, n, H, last'.start.root, s)
       /\ H[s].key = nodes[s].key /\ H[s].value = nodes[s].value
       /\ H[s].left = nodes[n].left
       /\ H[nodes[n].left].parent = s
       /\ Owned(H, H[s].left) = Owned(nodes, nodes[n].left)
       /\ \A x \in Owned(nodes, nodes[n].left) :
              H[x] = IF x = nodes[n].left THEN [nodes[x] EXCEPT !.parent = s]
                     ELSE nodes[x]

\* C31: when a node with two children is removed, the node that replaces it
\* is the leftmost node of its right subtree, which has no left child and
\* holds the smallest key greater than the removed one; when the rebalancing
\* walk starts that node is in the removed node's slot (same side of the same
\* parent, or the root), has the removed node's parent pointer, and has the
\* removed node's left subtree, unchanged but for the parent pointer of its
\* root, as its left child.
C31_SuccessorReplaces ==
    [][(last'.op = "remove" /\ last'.found /\ ~panicked'
        /\ TwoChildren(nodes, Find(nodes, root, last'.key)))
           => SuccessorInstalled(Find(nodes, root, last'.key))]_vars

\* A node below the root with two children was removed and its successor,
\* which was not its right child, is in its place when the walk starts.
C31_Witness ==
    /\ last.op = "remove" /\ last.found /\ last.succ # Null /\ ~last.direct
    /\ last.start.nodes[last.succ].parent # Null
    /\ last.start.nodes[last.succ].left # Null
    /\ last.start.nodes[last.start.nodes[last.succ].left].parent = last.succ
    /\ last.start.nodes[last.succ].key > last.key



\* The step removed node n, which has two children, and dealt with the
\* right subtrees and started the walk as C32 says.
SuccessorSpliced(n) ==
    LET s  == LeftmostBelow(nodes, nodes[n].right)
        sp == nodes[s].parent
        r  == nodes[n].right
        c  == nodes[s].right
        H  == last'.start.nodes
    IN IF s = r
       THEN /\ last'.direct
            /\ last'.start.from = s
            /\ H[s].right = c
            /\ last'.log # <<>> /\ last'.log[1].node = s
       ELSE /\ ~last'.direct
            /\ last'.successor_parent = sp
            /\ H[sp].left = c
            /\ c # Null => H[c] = [nodes[c] EXCEPT !.parent = sp]
            /\ H[s].right = r
            /\ H[r].parent = s
            /\ Owned(H, r) = Owned(nodes, r) \ {s}
            /\ last'.start.from = sp
            /\ last'.log # <<>> /\ last'.log[1].node = sp

\* C32: in the removal of a node with two children whose successor is not
\* its right child, the successor's former right child, if any, is in the
\* left slot of the successor's original parent, with that parent as its
\* parent pointer; the successor has the removed node's right subtree as its
\* right child, re-parented to it; and the rebalancing walk starts at the
\* successor's original parent.  When the successor is the right child, the
\* walk starts at the successor in its new position.
C32_SuccessorSplice ==
    [][(last'.op = "remove" /\ last'.found /\ ~panicked'
        /\ TwoChildren(nodes, Find(nodes, root, last'.key)))
           => SuccessorSpliced(Find(nodes, root, last'.key))]_vars

\* A removal whose successor was not the right child and had a right child
\* of its own, now the left child of the successor's original parent, where
\* the walk started.
C32_Witness ==
    /\ last.op = "remove" /\ last.found /\ last.succ # Null /\ ~last.direct
    /\ last.start.from = last.successor_parent
    /\ last.start.nodes[last.successor_parent].left # Null
    /\ last.start.nodes[last.start.nodes[last.successor_parent].left].parent
           = last.successor_parent
    /\ last.start.nodes[last.succ].right # Null
    /\ last.start.nodes[last.start.nodes[last.succ].right].parent = last.succ



\* The node of the tree (h, r) holding the smallest key greater than k, Null
\* when no key is greater.
NextByKey(h, r, k) ==
    LET above == {x \in Owned(h, r) : h[x].key > k}
    IN IF above = {} THEN Null
       ELSE CHOOSE x \in above : \A y \in above : h[x].key <= h[y].key

\* The nodes that have x in their left subtree.
LeftAncestors(h, r, x) == {a \in Owned(h, r) : x \in Owned(h, h[a].left)}

\* The first node on the way up from x, by parent pointers, that is not
\* entered from its right child; Null when the way up ends at the root.
RECURSIVE FirstLeftTurn(_, _)
FirstLeftTurn(h, x) ==
    LET p == h[x].parent IN
    IF p = Null THEN Null
    ELSE IF h[p].right = x THEN FirstLeftTurn(h, p)
    ELSE p

\* What C33 says find_successor returns for node x of the tree (h, r).
SuccessorAsDescribed(h, r, x) ==
    IF h[x].right # Null THEN LeftmostBelow(h, h[x].right)
    ELSE FirstLeftTurn(h, x)

\* C33: the borrowed traversal starts at the leftmost descendant of the
\* root, the node with the smallest key; for every node x of the tree
\* find_successor(x) is the leftmost node of x's right subtree when x has a
\* right child, otherwise the first ancestor reached by parent pointers that
\* is not entered from its right child (the nearest ancestor with x in its
\* left subtree), none when there is no such ancestor; that node is the one
\* holding the smallest key greater than x's key; and the traversal yields
\* size() items, the successor of the last one being none.
C33_BorrowedTraversal ==
    /\ IterNew(nodes, root) =
           IF root = Null THEN Null ELSE LeftmostBelow(nodes, root)
    /\ root # Null =>
           \A x \in Reach : nodes[IterNew(nodes, root)].key <= nodes[x].key
    /\ \A x \in Reach :
           /\ find_successor(nodes, x) = SuccessorAsDescribed(nodes, root, x)
           /\ find_successor(nodes, x) = NextByKey(nodes, root, nodes[x].key)
           /\ (nodes[x].right = Null /\ find_successor(nodes, x) # Null) =>
                  /\ find_successor(nodes, x) \in LeftAncestors(nodes, root, x)
                  /\ \A a \in LeftAncestors(nodes, root, x) :
                         find_successor(nodes, x) \in Owned(nodes, a)
           /\ (nodes[x].right = Null /\ find_successor(nodes, x) = Null) =>
                  LeftAncestors(nodes, root, x) = {}
    /\ Len(IterNodes(nodes, IterNew(nodes, root))) = size
    /\ last.op \in {"iter", "keys", "values"} => Len(last.items) = size

\* iter() has yielded every pair of a tree in which some node without a
\* right child has its grandparent as successor, the climb passing through
\* its parent.
C33_Witness ==
    /\ last.op = "iter" /\ Len(last.items) = size /\ size >= 4
    /\ \E x \in Reach :
           /\ nodes[x].right = Null
           /\ nodes[x].parent # Null
           /\ nodes[nodes[x].parent].right = x
           /\ find_successor(nodes, x) # Null
           /\ find_successor(nodes, x) = nodes[nodes[x].parent].parent



\* What remove would meet on the way to removing stored node x: the slot
\* and NodeType its descent records, and for a node with two children the
\* slot get_mutable_node_reference finds for the successor.
RemovalIsSafe(x) ==
    LET d == RemoveDescent(Tree, RootSlot, "Root", nodes[x].key)
    IN /\ SlotGet(Tree, d.slot) = x
       /\ (d.node_type = "Root") <=> (d.slot = RootSlot)
       /\ (nodes[x].parent = Null) <=> (d.slot = RootSlot)
       /\ nodes[x].parent # Null =>
              /\ ParentSlot(nodes[x].parent, d.node_type) = d.slot
              /\ d.slot.owner = nodes[x].parent
       /\ TwoChildren(nodes, x) =>
              LET s == find_leftmost_node(nodes, nodes[x].right)
              IN /\ get_mutable_node_reference(Tree, s) # NoSlot
                 /\ SlotGet(Tree, get_mutable_node_reference(Tree, s)) = s
                 /\ s # nodes[x].right => nodes[nodes[x].right].left # Null

\* C34: no sequence of insert and remove calls on a new tree reaches a fatal
\* path.  No call has panicked, no walk has recorded a "broken tree" panic,
\* every node of the tree is found by get_mutable_node_reference in the slot
\* that holds it, and for every stored key the descent of remove ends in the
\* root slot exactly when the node has a null parent pointer (so the
\* NodeType::Root arms are not taken with a parent present) and the unwrap
\* calls of remove_two_children_node find what they unwrap.
C34_NoFatalPath ==
    /\ ~panicked
    /\ \A i \in 1..Len(last.log) : last.log[i].rot # "panic"
    /\ \A x \in Reach :
           /\ get_mutable_node_reference(Tree, x) # NoSlot
           /\ SlotGet(Tree, get_mutable_node_reference(Tree, x)) = x
           /\ RemovalIsSafe(x)

\* A node below the root with two children has been removed, its successor
\* was found in a slot and taken, and the walk rotated at a node it looked
\* up with get_mutable_node_reference; nothing panicked.
C34_Witness ==
    /\ ~panicked
    /\ last.op = "remove" /\ last.found /\ last.succ # Null
    /\ last.start.nodes[last.succ].parent # Null
    /\ \E i \in 1..Len(last.log) : last.log[i].rot \in Rotations



\* The visit e of a walk found a balance factor and children the rotation
\* table has a row for, and did what the row says.
VisitInTable(e) ==
    /\ e.bf \in -2..2
    /\ e.bf = -2 =>
           /\ e.right # Null
           /\ e.rbf \in {-1, 0, 1}
           /\ e.rot \in {"rotate_left", "big_rotate_left"}
           /\ e.top # Null /\ e.top # e.node
    /\ e.bf = 2 =>
           /\ e.left # Null
           /\ e.lbf \in {-1, 0, 1}
           /\ e.rot \in {"rotate_right", "big_rotate_right"}
           /\ e.top # Null /\ e.top # e.node
    /\ e.bf \in -1..1 => e.rot = "none"

\* C35: in every rebalancing walk of an insert or a remove, the balance
\* factor recomputed at each visited node is one of -2, -1, 0, 1, 2; when it
\* is -2 the right child exists and has a balance factor of -1, 0 or 1, and
\* when it is 2 the same holds of the left child; so every unbalanced node
\* is rotated, the rotation putting another node at the top of the subtree,
\* and no visit finds |balance factor| >= 2 and rotates nothing.
C35_AlwaysInTable ==
    \A i \in 1..Len(last.log) : VisitInTable(last.log[i])

\* A walk after a removal found balance factor -2 over an evenly balanced
\* right child and rotated left there.
C35_Witness ==
    /\ last.op = "remove"
    /\ \E i \in 1..Len(last.log) :
           /\ last.log[i].bf = -2
           /\ last.log[i].rbf = 0
           /\ last.log[i].rot = "rotate_left"
           /\ last.log[i].top = last.log[i].right



\* C36: in the walk of one insert of a new key at most one visit rotates
\* (one single or one double rotation).  The subtree the rotation leaves has
\* the height the subtree in that slot had before the insert.  No later
\* visit of the walk rotates, and none changes a height: the node the
\* rotation moved to the top, which the walk visits next, keeps the height
\* the rotation gave it, and every node visited after it ends with the
\* height it had before the insert.
C36_OneRotationPerInsert ==
    (last.op = "insert" /\ ~last.found) =>
        /\ Cardinality(RotationSteps) <= 1
        /\ \A i \in 1..Len(last.log) : last.log[i].rot \in Rotations
               => i \in RotationSteps
        /\ \A i \in RotationSteps :
               LET e == last.log[i] IN
               /\ e.post[e.top].height = last.start.nodes[e.node].height
               /\ nodes[e.top].height = e.post[e.top].height
               /\ RealHeight(nodes, e.top) = last.start.nodes[e.node].height
               /\ \A j \in (i + 1)..Len(last.log) :
                      /\ last.log[j].rot = "none"
                      /\ last.log[j].bf \in -1..1
                      /\ last.log[j].node # e.top =>
                             nodes[last.log[j].node].height
                                 = last.start.nodes[last.log[j].node].height

\* An insert whose walk rotated twice over (a double rotation) below the
\* root and then visited two more nodes without changing their heights.
C36_Witness ==
    /\ last.op = "insert" /\ ~last.found
    /\ \E i \in RotationSteps :
           /\ last.log[i].rot \in {"big_rotate_left", "big_rotate_right"}
           /\ i + 2 <= Len(last.log)
           /\ nodes[root].height = last.start.nodes[last.start.root].height



\* C37: after every sequence of inserts the draft AVLTree, whose walk
\* returns as soon as a visited node has balance factor 0, before or after a
\* rotation, and the final AvlTree, whose walk goes on to the root, hold the
\* same tree: the same root and, node for node, the same key, value, cached
\* height, children and parent pointer; the two inserts return the same.
C37_DraftSameTree ==
    /\ ~probe.t.panicked
    /\ probe.t.root = root
    /\ DOMAIN probe.t.nodes = DOMAIN nodes
    /\ \A x \in DOMAIN nodes : probe.t.nodes[x] = nodes[x]
    /\ last.op = "insert" => probe.t.ret = last.ret

\* An insert after which the draft's walk returned below the root, at least
\* two visits before the final walk ended at the root.
C37_Witness ==
    /\ last.op = "insert" /\ ~last.found
    /\ probe.t.log # <<>>
    /\ Len(last.log) >= Len(probe.t.log) + 2
    /\ last.log[Len(last.log)].node = root
    /\ probe.t.log[Len(probe.t.log)].node # root
    /\ probe.t.root = root



\* In the tree (h, r) every node has the parent pointer that goes with the
\* slot holding it: null at the root, the owner of the slot elsewhere.
ParentsMatchSlots(h, r) ==
    /\ r # Null => h[r].parent = Null
    /\ \A x \in Owned(h, r) :
           /\ h[x].left # Null => h[h[x].left].parent = x
           /\ h[x].right # Null => h[h[x].right].parent = x

\* In the tree (h, r) every node that is not cur or above it has the height
\* of its subtree as cached height.
HeightsRightOffPath(h, r, cur) ==
    \A x \in Owned(h, r) \ Ancestors(h, cur) : h[x].height = RealHeight(h, x)

\* The walk, at node cur of the tree (h, r), has only the path from cur to
\* the root left to repair.
OnlyPathToRepair(h, r, cur) ==
    /\ cur \in Owned(h, r)
    /\ ParentsMatchSlots(h, r)
    /\ HeightsRightOffPath(h, r, cur)

\* The root of the tree right after the rotation of visit e of the last
\* walk.
RootAfter(e) ==
    IF e.post[e.top].parent = Null THEN e.top ELSE last.start.root

\* C38: when a rebalancing walk starts (the new leaf linked, or the leaf
\* detached, the child promoted or the successor spliced) and after each
\* rotation inside it, every node reachable from the root has the parent
\* pointer that goes with the slot holding it, and every node that is not on
\* the path from the walk's current node to the root has a correct cached
\* height; what is left to repair lies on that path.
C38_OnlyPathToRepair ==
    last.start.from # Null =>
        /\ OnlyPathToRepair(last.start.nodes, last.start.root, last.start.from)
        /\ \A i \in RotationSteps :
               OnlyPathToRepair(last.log[i].post, RootAfter(last.log[i]),
                                last.log[i].node)

\* A two-children removal whose successor was not the right child: the walk
\* started at a node whose cached height was no longer right and rotated on
\* its way up.
C38_Witness ==
    /\ last.op = "remove" /\ last.found /\ last.succ # Null /\ ~last.direct
    /\ last.start.nodes[last.start.from].height
           # RealHeight(last.start.nodes, last.start.from)
    /\ RotationSteps # {}

====
